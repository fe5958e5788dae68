--------------------------- MODULE ProxySpecProofs ---------------------------
(***************************************************************************)
(* What each client makes of a proxy, for every text a caller can put      *)
(* together, every credential beside it and every length: no bound on the  *)
(* parts, only the grammar ProxySpec assumes of them.                      *)
(*                                                                         *)
(* A text is its parts in a row, and reading it back is a search for       *)
(* marks.  The lemmas go up from what a search finds in a concatenation,   *)
(* by way of what each parser makes of one, to what is parsed out of       *)
(* whatever the caller wrote: ParsedIs.  Above it, an invariant carries    *)
(* that from ParseProxy to the two commands.                               *)
(***************************************************************************)
EXTENDS ProxySpec, SequenceTheorems, WellFoundedInduction, TLAPS

\* The tokens of every text that occurs.
T == STRING \cup Marks \cup {"http", "gw", "a", "xn--zca", "U+FFFD"}

\* None of the marks is in s.
Free(s, marks) == \A i \in 1 .. Len(s) : s[i] \notin marks

\* What ends an authority.
Ends == {"/", "?", "://"}

\* What may stand where in a text, whichever client reads it.
IsScheme(s) == s \in Seq(T) /\ (s # <<>> => Len(s) = 2 /\ s[1] \notin Marks /\ s[2] = "://")
IsUserInfo(l) ==
  l \in Seq(T) /\ Free(l, Ends) /\ (l # <<>> => l[1] # "space" /\ l[Len(l)] = "@")
IsHost(h) == h \in Seq(T) /\ Free(h, Marks)
IsPort(p) == p \in Seq(T) /\ Len(p) < 2 /\ Free(p, Marks)
IsRest(r) == r \in Seq(T) /\ (r # <<>> => r[1] \in {"/", "?"})

-----------------------------------------------------------------------------
(* Positions in sequences *)

\* The least of a set of numbers.
LEMMA MinIs ==
  ASSUME NEW S \in SUBSET Int, NEW m \in S, \A i \in S : m =< i
  PROVE  Min(S) = m
  <1>1. \A x \in S : (\A y \in S : x =< y) => x = m
    OBVIOUS
  <1>. QED  BY <1>1 DEF Min

\* The greatest of a set of numbers.
LEMMA MaxIs ==
  ASSUME NEW S \in SUBSET Int, NEW m \in S, \A i \in S : m >= i
  PROVE  Max(S) = m
  <1>1. \A x \in S : (\A y \in S : x >= y) => x = m
    OBVIOUS
  <1>. QED  BY <1>1 DEF Max

\* What stands where in a concatenation.
LEMMA Concat ==
  ASSUME NEW a \in Seq(T), NEW b \in Seq(T)
  PROVE  /\ a \o b \in Seq(T)
         /\ Len(a) \in Nat /\ Len(b) \in Nat
         /\ Len(a \o b) = Len(a) + Len(b)
         /\ \A i \in 1 .. Len(a) : (a \o b)[i] = a[i]
         /\ \A i \in 1 .. Len(b) : (a \o b)[Len(a) + i] = b[i]
         /\ \A i \in 1 .. Len(a \o b) : i > Len(a) => i - Len(a) \in 1 .. Len(b) /\ (a \o b)[i] = b[i - Len(a)]
  BY ConcatProperties, LenProperties

\* Concatenation is associative, for sequences of tokens.
LEMMA ConcatThree ==
  ASSUME NEW a \in Seq(T), NEW b \in Seq(T), NEW c \in Seq(T)
  PROVE  (a \o b) \o c = a \o (b \o c)
  BY ConcatAssociative

\* Nothing of either part, nothing of the two together.
LEMMA FreeConcat ==
  ASSUME NEW a \in Seq(T), NEW b \in Seq(T), NEW M
  PROVE  Free(a \o b, M) <=> Free(a, M) /\ Free(b, M)
  <1>1. ASSUME Free(a \o b, M) PROVE Free(a, M) /\ Free(b, M)
    <2>1. \A i \in 1 .. Len(a) : i \in 1 .. Len(a \o b) /\ (a \o b)[i] = a[i]
      BY Concat
    <2>2. \A i \in 1 .. Len(b) : Len(a) + i \in 1 .. Len(a \o b) /\ (a \o b)[Len(a) + i] = b[i]
      BY Concat
    <2>. QED  BY <1>1, <2>1, <2>2 DEF Free
  <1>2. ASSUME Free(a, M), Free(b, M) PROVE Free(a \o b, M)
    <2>0. Len(a) \in Nat /\ Len(a \o b) \in Nat
      BY Concat
    <2>1. \A i \in 1 .. Len(a \o b) : i =< Len(a) => i \in 1 .. Len(a) /\ (a \o b)[i] = a[i]
      BY <2>0, Concat
    <2>2. \A i \in 1 .. Len(a \o b) : i > Len(a) => i - Len(a) \in 1 .. Len(b) /\ (a \o b)[i] = b[i - Len(a)]
      BY Concat
    <2>. QED  BY <1>2, <2>0, <2>1, <2>2 DEF Free
  <1>. QED  BY <1>1, <1>2

\* The first part, cut out of a concatenation.
LEMMA CutHead ==
  ASSUME NEW a \in Seq(T), NEW b \in Seq(T)
  PROVE  SubSeq(a \o b, 1, Len(a)) = a
  OBVIOUS

\* What follows the first part of a concatenation.
LEMMA CutTail ==
  ASSUME NEW a \in Seq(T), NEW b \in Seq(T)
  PROVE  From(a \o b, Len(a) + 1) = b
  <1> DEFINE c == SubSeq(a \o b, Len(a) + 1, Len(a \o b))
  <1>1. c \in Seq(T) /\ Len(c) = Len(b) /\ \A i \in 1 .. Len(c) : c[i] = b[i]
    OBVIOUS
  <1>. QED  BY <1>1, SeqEqual DEF From

\* A text is empty exactly if it has no tokens.
LEMMA EmptyOrNot ==
  ASSUME NEW s \in Seq(T)
  PROVE  Len(s) \in Nat /\ (s = <<>> <=> Len(s) = 0) /\ (s # <<>> <=> Len(s) > 0)
  BY EmptySeq, LenProperties

\* Up to the first token that ends it.
LEMMA AuthorityIs ==
  ASSUME NEW a \in Seq(T), Free(a, Ends), NEW r, IsRest(r)
  PROVE  Authority(a \o r) = a
  <1> DEFINE s == a \o r
             I == {i \in 1 .. Len(s) : s[i] \in {"/", "?", "://"}}
  <1>0. r \in Seq(T) /\ (r # <<>> => r[1] \in {"/", "?"})
    BY DEF IsRest
  <1>1. Authority(s) = IF I = {} THEN s ELSE IF Min(I) = 0 THEN s ELSE SubSeq(s, 1, Min(I) - 1)
    BY DEF Authority, SelectInSeq
  <1>2. CASE r = <<>>
    <2>1. s = a
      BY <1>2, ConcatEmptySeq
    <2>2. I = {}
      BY <2>1 DEF Free, Ends
    <2>. QED  BY <1>1, <2>1, <2>2
  <1>3. CASE r # <<>>
    <2>1. Len(r) > 0 /\ Len(a) \in Nat /\ Len(r) \in Nat
      BY <1>0, <1>3, EmptyOrNot
    <2>2. Len(a) + 1 \in I
      BY <1>0, <1>3, <2>1, Concat
    <2>3. \A i \in I : Len(a) + 1 =< i
      BY <1>0, <2>1, Concat DEF Free, Ends
    <2>4. I \in SUBSET Int
      BY <1>0, Concat
    <2>5. Min(I) = Len(a) + 1
      BY <2>2, <2>3, <2>4, MinIs
    <2>6. SubSeq(s, 1, Len(a)) = a
      BY <1>0, CutHead
    <2>7. Authority(s) = SubSeq(s, 1, Min(I) - 1)
      <3> HIDE DEF I, s
      <3>. QED  BY <1>1, <2>1, <2>2, <2>5
    <2>8. Min(I) - 1 = Len(a)
      <3> HIDE DEF I, s
      <3>. QED  BY <2>1, <2>5
    <2>. QED  BY <2>6, <2>7, <2>8
  <1>. QED  BY <1>2, <1>3

\* The first ":" is the one behind a part that has none.
LEMMA ColonIs ==
  ASSUME NEW h \in Seq(T), Free(h, {":"}), NEW b \in Seq(T)
  PROVE  /\ SelectInSeq(h \o (<<":">> \o b), LAMBDA t : t = ":") = Len(h) + 1
         /\ SelectInSeq(h, LAMBDA t : t = ":") = 0
  <1> DEFINE c == <<":">> \o b
             s == h \o c
             I == {i \in 1 .. Len(s) : s[i] = ":"}
             J == {i \in 1 .. Len(h) : h[i] = ":"}
  <1>0. ":" \in T
    BY DEF T, Marks
  <1>1. c \in Seq(T) /\ Len(c) \in Nat /\ Len(c) > 0 /\ c[1] = ":"
    <2>1. <<":">> \in Seq(T) /\ Len(<<":">>) = 1 /\ <<":">>[1] = ":"
      BY <1>0
    <2>. QED  BY <2>1, Concat
  <1>2. Len(h) + 1 \in I /\ I \in SUBSET Int /\ \A i \in I : Len(h) + 1 =< i
    BY <1>1, Concat DEF Free
  <1>3. Min(I) = Len(h) + 1
    BY <1>2, MinIs
  <1>4. J = {}
    BY DEF Free
  <1>5. SelectInSeq(s, LAMBDA t : t = ":") = IF I # {} THEN Min(I) ELSE 0
    BY DEF SelectInSeq
  <1>6. SelectInSeq(h, LAMBDA t : t = ":") = IF J # {} THEN Min(J) ELSE 0
    BY DEF SelectInSeq
  <1>. QED  BY <1>2, <1>3, <1>4, <1>5, <1>6

\* The last "@" is the one that ends the credentials.
LEMMA AtIs ==
  ASSUME NEW l, IsUserInfo(l), NEW hp \in Seq(T), Free(hp, {"@"})
  PROVE  SelectLastInSeq(l \o hp, LAMBDA t : t = "@") = Len(l)
  <1> DEFINE s == l \o hp
             I == {i \in 1 .. Len(s) : s[i] = "@"}
  <1>0. l \in Seq(T) /\ (l # <<>> => l[Len(l)] = "@") /\ Len(l) \in Nat
    BY EmptyOrNot DEF IsUserInfo
  <1>1. SelectLastInSeq(s, LAMBDA t : t = "@") = IF I # {} THEN Max(I) ELSE 0
    BY DEF SelectLastInSeq
  <1>2. \A i \in I : i =< Len(l)
    BY <1>0, Concat DEF Free
  <1>3. CASE l = <<>>
    <2>1. Len(l) = 0 /\ I = {}
      BY <1>0, <1>2, <1>3, EmptyOrNot
    <2>. QED  BY <1>1, <2>1
  <1>4. CASE l # <<>>
    <2>1. Len(l) \in 1 .. Len(l)
      BY <1>0, <1>4, EmptyOrNot
    <2>2. Len(l) \in I /\ I \in SUBSET Int
      BY <1>0, <1>4, <2>1, Concat
    <2>3. Max(I) = Len(l)
      BY <1>0, <1>2, <2>2, MaxIs
    <2>. QED  BY <1>1, <2>2, <2>3
  <1>. QED  BY <1>3, <1>4

\* A host and its port: no mark in them but the colon between them.
LEMMA HostPort ==
  ASSUME NEW h, IsHost(h), NEW p, IsPort(p)
  PROVE  /\ PortPart(p) \in Seq(T)
         /\ h \o PortPart(p) \in Seq(T)
         /\ Free(h \o PortPart(p), Marks \ {":"})
         /\ p = <<>> => PortPart(p) = <<>>
         /\ p # <<>> => PortPart(p) = <<":">> \o p
         /\ h \o PortPart(p) = <<>> <=> h = <<>> /\ p = <<>>
  <1> DEFINE c == <<":">> \o p
  <1>0. h \in Seq(T) /\ p \in Seq(T) /\ Free(h, Marks) /\ Free(p, Marks) /\ ":" \in T
    BY DEF IsHost, IsPort, T, Marks
  <1>1. /\ c \in Seq(T) /\ Len(c) = 1 + Len(p) /\ c[1] = ":"
        /\ \A i \in 1 .. Len(c) : i > 1 => i - 1 \in 1 .. Len(p) /\ c[i] = p[i-1]
    <2>1. <<":">> \in Seq(T) /\ Len(<<":">>) = 1 /\ <<":">>[1] = ":"
      BY <1>0
    <2>. QED  BY <1>0, <2>1, Concat
  <1>2. Free(c, Marks \ {":"})
    BY <1>0, <1>1, EmptyOrNot DEF Free
  <1>3. /\ p = <<>> => PortPart(p) = <<>>
        /\ p # <<>> => PortPart(p) = c
    BY DEF PortPart
  <1>4. PortPart(p) \in Seq(T) /\ Free(PortPart(p), Marks \ {":"})
    <2>1. <<>> \in Seq(T) /\ Free(<<>>, Marks \ {":"})
      BY DEF Free
    <2>. QED  BY <1>1, <1>2, <1>3, <2>1
  <1>5. PortPart(p) = <<>> <=> p = <<>>
    BY <1>0, <1>1, <1>3, EmptyOrNot
  <1>6. h \o PortPart(p) = <<>> <=> h = <<>> /\ p = <<>>
    <2>1. /\ h \o PortPart(p) \in Seq(T)
          /\ Len(h \o PortPart(p)) = Len(h) + Len(PortPart(p))
      BY <1>0, <1>4, Concat
    <2>. QED  BY <1>0, <1>4, <1>5, <2>1, EmptyOrNot
  <1>7. Free(h \o PortPart(p), Marks \ {":"})
    BY <1>0, <1>4, Concat DEF Free
  <1>. QED  BY <1>0, <1>3, <1>4, <1>6, <1>7, Concat

\* What a URL parser reads from a text that was put together.
LEMMA PartsIs ==
  ASSUME NEW s, IsScheme(s), s # <<>>, NEW l, IsUserInfo(l), NEW h, IsHost(h),
         NEW p, IsPort(p), NEW r, IsRest(r)
  PROVE  Parts(s \o ((l \o (h \o PortPart(p))) \o r))
           = [scheme |-> Lower(s[1]), host |-> h, port |-> p]
  <1> DEFINE hp == h \o PortPart(p)
             a == l \o hp
             text == s \o (a \o r)
             at == SelectLastInSeq(a, LAMBDA t : t = "@")
             colon == SelectInSeq(hp, LAMBDA t : t = ":")
  <1>0. /\ s \in Seq(T) /\ Len(s) = 2
        /\ l \in Seq(T) /\ Free(l, Ends)
        /\ h \in Seq(T) /\ Free(h, Marks)
        /\ p \in Seq(T) /\ r \in Seq(T)
    BY DEF IsScheme, IsUserInfo, IsHost, IsPort, IsRest
  <1>1. hp \in Seq(T) /\ Free(hp, Marks \ {":"})
    BY HostPort
  <1>2. a \in Seq(T) /\ Free(a, Ends) /\ a \o r \in Seq(T)
    <2>1. Free(hp, Ends)
      BY <1>1 DEF Free, Ends, Marks
    <2>2. Free(a, Ends)
      BY <1>0, <1>1, <2>1, FreeConcat
    <2>. QED  BY <1>0, <1>1, <2>2, Concat
  <1>3. From(text, 3) = a \o r /\ text[1] = s[1]
    <2>1. From(text, Len(s) + 1) = a \o r
      BY <1>0, <1>2, CutTail
    <2>. QED  BY <1>0, <1>2, <2>1, Concat
  <1>4. Authority(a \o r) = a
    BY <1>2, AuthorityIs
  <1>5. at = Len(l) /\ From(a, at + 1) = hp
    <2>1. Free(hp, {"@"})
      BY <1>1 DEF Free, Marks
    <2>2. at = Len(l)
      BY <1>1, <2>1, AtIs
    <2>. QED  BY <1>0, <1>1, <2>2, CutTail
  <1>6. /\ h = IF colon = 0 THEN hp ELSE SubSeq(hp, 1, colon - 1)
        /\ p = IF colon = 0 THEN <<>> ELSE From(hp, colon + 1)
    <2>0. Free(h, {":"}) /\ Len(h) \in Nat
      BY <1>0, EmptyOrNot DEF Free, Marks
    <2>1. CASE p = <<>>
      <3>1. hp = h
        BY <1>0, <2>1, HostPort, ConcatEmptySeq
      <3>2. colon = 0
        BY <1>0, <2>0, <3>1, ColonIs
      <3>. QED  BY <2>1, <3>1, <3>2
    <2>2. CASE p # <<>>
      <3>0. <<":">> \in Seq(T) /\ Len(<<":">>) = 1
        BY DEF T, Marks
      <3>1. hp = h \o (<<":">> \o p)
        BY <2>2, HostPort
      <3>2. colon = Len(h) + 1
        BY <1>0, <2>0, <3>1, ColonIs
      <3>3. hp = (h \o <<":">>) \o p
        <4>1. (h \o <<":">>) \o p = h \o (<<":">> \o p)
          BY <1>0, <3>0, ConcatAssociative
        <4>. QED  BY <3>1, <4>1
      <3>4. h \o <<":">> \in Seq(T) /\ Len(h \o <<":">>) = Len(h) + 1
        BY <1>0, <3>0, Concat
      <3>5. From(hp, colon + 1) = p
        BY <1>0, <3>2, <3>3, <3>4, CutTail
      <3>6. <<":">> \o p \in Seq(T)
        BY <1>0, <3>0, Concat
      <3>7. SubSeq(hp, 1, Len(h)) = h
        BY <1>0, <3>1, <3>6, CutHead
      <3>8. colon # 0 /\ colon - 1 = Len(h)
        BY <2>0, <3>2
      <3>. QED  BY <3>5, <3>7, <3>8
    <2>. QED  BY <2>1, <2>2
  <1>7. Parts(text) = [scheme |-> Lower(text[1]),
                       host |-> IF colon = 0 THEN hp ELSE SubSeq(hp, 1, colon - 1),
                       port |-> IF colon = 0 THEN <<>> ELSE From(hp, colon + 1)]
    BY <1>3, <1>4, <1>5 DEF Parts
  <1>. QED  BY <1>3, <1>6, <1>7

\* A set of positions that is not empty has a last one.
LEMMA LastExists ==
  ASSUME NEW n \in Nat, NEW S \in SUBSET (1 .. n), S # {}
  PROVE  \E m \in S : \A i \in S : m >= i
  <1> DEFINE R == OpToRel(<, Nat)
             U == {n - i : i \in S}
  <1>1. IsWellFoundedOn(R, Nat)
    BY NatLessThanWellFounded
  <1>2. \A x, y \in Nat : y < x => <<y, x>> \in R
    BY DEF OpToRel
  <1>3. U \subseteq Nat /\ U # {}
    <2>1. \A i \in S : n - i \in Nat
      OBVIOUS
    <2>. QED  BY <2>1
  <1>4. PICK x \in U : \A y \in U : ~(<<y, x>> \in R)
    <2> HIDE DEF R, U
    <2>. QED  BY <1>1, <1>3, WFMin
  <1>5. \A y \in U : x =< y
    <2> HIDE DEF R, U
    <2>1. \A y \in U : ~(y < x)
      BY <1>2, <1>3, <1>4
    <2>. QED  BY <1>3, <2>1
  <1>6. PICK m \in S : x = n - m
    OBVIOUS
  <1>7. ASSUME NEW i \in S PROVE m >= i
    <2>1. n - i \in U
      OBVIOUS
    <2>2. n - m =< n - i
      BY <1>5, <1>6, <2>1
    <2>. QED  BY <2>2
  <1>. QED  BY <1>7

\* What Trim leaves of a path.
Trimmed(q, r) ==
  /\ IsRest(q) /\ (q # <<>> => q[Len(q)] # "space")
  /\ (r # <<>> => r[Len(r)] # "space") => q = r
  /\ \A x \in {"@", "://"} : x \in ToSet(q) <=> x \in ToSet(r)

\* No white space around it.
Solid(a) == a # <<>> => a[1] # "space" /\ a[Len(a)] # "space"

\* Trim drops the white space before a text and at its end.
LEMMA TrimIs ==
  ASSUME NEW lead \in Seq({"space"}), NEW a \in Seq(T), Solid(a), NEW r, IsRest(r)
  PROVE  \E q : Trimmed(q, r) /\ Trim(lead \o (a \o r)) = a \o q
  <1> DEFINE body == a \o r
             text == lead \o body
             solid == {i \in DOMAIN text : text[i] # "space"}
  <1>1. lead \in Seq(T) /\ Len(lead) \in Nat /\ \A i \in 1 .. Len(lead) : lead[i] = "space"
    <2>1. {"space"} \subseteq T
      BY DEF T, Marks
    <2>2. \A i \in 1 .. Len(lead) : lead[i] \in {"space"}
      BY ElementOfSeq
    <2>. QED  BY <2>1, <2>2, SeqMonotonic, LenProperties
  <1>2. /\ r \in Seq(T) /\ (r # <<>> => r[1] # "space")
        /\ Len(a) \in Nat /\ Len(r) \in Nat
        /\ a # <<>> <=> Len(a) > 0
        /\ r # <<>> <=> Len(r) > 0
    BY EmptyOrNot DEF IsRest
  <1>3. /\ body \in Seq(T) /\ Len(body) \in Nat /\ Len(body) = Len(a) + Len(r)
        /\ body # <<>> <=> Len(body) > 0
        /\ \A i \in 1 .. Len(a) : body[i] = a[i]
        /\ \A i \in 1 .. Len(r) : body[Len(a) + i] = r[i]
    BY <1>2, Concat, EmptyOrNot
  <1> HIDE DEF body
  <1>4. /\ text \in Seq(T) /\ Len(text) \in Nat /\ Len(text) = Len(lead) + Len(body)
        /\ DOMAIN text = 1 .. Len(text)
        /\ \A i \in 1 .. Len(lead) : text[i] = "space"
        /\ \A i \in 1 .. Len(body) : text[Len(lead) + i] = body[i]
    BY <1>1, <1>3, Concat, LenProperties
  <1>5. Trim(text) = IF solid = {} THEN <<>> ELSE SubSeq(text, Min(solid), Max(solid))
    BY DEF Trim
  <1> HIDE DEF text
  <1>6. \A i : i \in solid <=> i \in 1 .. Len(text) /\ text[i] # "space"
    BY <1>4
  <1> HIDE DEF solid
  <1>7. CASE body = <<>>
    <2>1. Len(body) = 0 /\ Len(a) = 0 /\ Len(r) = 0
      BY <1>2, <1>3, <1>7
    <2>2. solid = {}
      BY <1>1, <1>4, <1>6, <2>1
    <2>3. r = <<>> /\ Trimmed(r, r)
      BY <1>2, <2>1 DEF Trimmed
    <2>4. Trim(text) = a \o r
      BY <1>5, <1>7, <2>2 DEF body
    <2>. QED  BY <2>3, <2>4 DEF text, body
  <1>8. CASE body # <<>>
    <2>1. Len(body) > 0 /\ body[1] # "space"
      <3>1. CASE Len(a) = 0
        <4>1. Len(r) > 0 /\ body[0 + 1] = r[1]
          BY <1>2, <1>3, <1>8, <3>1
        <4>. QED  BY <1>2, <1>3, <1>8, <4>1
      <3>2. CASE Len(a) > 0
        BY <1>2, <1>3, <1>8, <3>2 DEF Solid
      <3>. QED  BY <1>2, <3>1, <3>2
    <2>2. Len(lead) + 1 \in solid
      <3>1. 1 \in 1 .. Len(body)
        BY <1>3, <2>1
      <3>2. text[Len(lead) + 1] = body[1]
        BY <1>4, <3>1
      <3>3. Len(lead) + 1 \in 1 .. Len(text)
        BY <1>1, <1>3, <1>4, <2>1
      <3>. QED  BY <1>6, <2>1, <3>2, <3>3
    <2>3. \A i \in solid : Len(lead) + 1 =< i
      BY <1>1, <1>4, <1>6
    <2>4. solid \in SUBSET (1 .. Len(text)) /\ solid \in SUBSET Int
      BY <1>6
    <2>5. PICK m \in solid : \A i \in solid : m >= i
      BY <1>4, <2>2, <2>4, LastExists
    <2>6. Min(solid) = Len(lead) + 1 /\ Max(solid) = m
      BY <2>2, <2>3, <2>4, <2>5, MinIs, MaxIs
    <2> DEFINE n == m - Len(lead) - Len(a)
    <2>7. Len(lead) + Len(a) =< m
      <3>1. CASE Len(a) = 0
        BY <1>1, <1>4, <2>2, <2>4, <2>5, <3>1
      <3>2. CASE Len(a) > 0
        <4>1. Len(a) \in 1 .. Len(body) /\ body[Len(a)] # "space"
          BY <1>2, <1>3, <3>2 DEF Solid
        <4>2. Len(lead) + Len(a) \in solid
          <5>1. text[Len(lead) + Len(a)] = body[Len(a)]
            BY <1>4, <4>1
          <5>2. Len(lead) + Len(a) \in 1 .. Len(text)
            BY <1>1, <1>2, <1>3, <1>4, <3>2
          <5>. QED  BY <1>6, <4>1, <5>1, <5>2
        <4>. QED  BY <1>1, <1>2, <2>4, <2>5, <4>2
      <3>. QED  BY <1>2, <3>1, <3>2
    <2>8. n \in 0 .. Len(r) /\ m = Len(lead) + (Len(a) + n) /\ m \in 1 .. Len(text)
      BY <1>1, <1>2, <1>3, <1>4, <2>4, <2>7
    <2> HIDE DEF n
    <2> DEFINE q == SubSeq(r, 1, n)
    <2>9. q \in Seq(T) /\ Len(q) = n /\ (\A i \in 1 .. n : q[i] = r[i]) /\ (q # <<>> <=> n > 0)
      <3>1. q \in Seq(T) /\ Len(q) = n /\ \A i \in 1 .. n : q[i] = r[i]
        BY <1>2, <2>8
      <3>. QED  BY <3>1, EmptyOrNot
    <2> HIDE DEF q
    <2>10. \A i \in 1 .. Len(r) : /\ text[Len(lead) + (Len(a) + i)] = r[i]
                                  /\ Len(lead) + (Len(a) + i) \in 1 .. Len(text)
      <3> TAKE i \in 1 .. Len(r)
      <3>1. Len(a) + i \in 1 .. Len(body) /\ body[Len(a) + i] = r[i]
        BY <1>2, <1>3
      <3>2. text[Len(lead) + (Len(a) + i)] = body[Len(a) + i]
        BY <1>4, <3>1
      <3>. QED  BY <1>1, <1>3, <1>4, <3>1, <3>2
    <2>11. \A i \in 1 .. Len(r) : i > n => r[i] = "space"
      <3> TAKE i \in 1 .. Len(r)
      <3>1. ASSUME i > n, r[i] # "space" PROVE FALSE
        <4>1. Len(lead) + (Len(a) + i) \in solid
          BY <1>6, <2>10, <3>1
        <4>. QED  BY <1>1, <1>2, <2>5, <2>8, <3>1, <4>1
      <3>. QED  BY <3>1
    <2>12. n > 0 => r[n] # "space"
      BY <1>6, <2>5, <2>8, <2>10
    <2>13. Trimmed(q, r)
      <3>1. IsRest(q)
        BY <1>2, <2>8, <2>9 DEF IsRest
      <3>2. q # <<>> => q[Len(q)] # "space"
        BY <2>8, <2>9, <2>12
      <3>3. ToSet(q) = {r[i] : i \in 1 .. n}
        BY <2>9, LenProperties DEF ToSet
      <3>4. ToSet(r) = {r[i] : i \in 1 .. Len(r)}
        BY <1>2, LenProperties DEF ToSet
      <3>5. \A x \in {"@", "://"} : x \in ToSet(q) <=> x \in ToSet(r)
        BY <1>2, <2>8, <2>11, <3>3, <3>4
      <3>6. ASSUME r # <<>> => r[Len(r)] # "space" PROVE q = r
        <4>1. n = Len(r)
          BY <1>2, <2>8, <2>11, <3>6
        <4>. QED  BY <1>2, <2>9, <4>1, SeqEqual
      <3>. QED  BY <3>1, <3>2, <3>5, <3>6 DEF Trimmed
    <2>14. SubSeq(text, Len(lead) + 1, m) = a \o q
      <3> DEFINE c == SubSeq(text, Len(lead) + 1, m)
                 d == a \o q
      <3>1. c \in Seq(T) /\ Len(c) = Len(a) + n /\ \A i \in 1 .. Len(a) + n : c[i] = text[Len(lead) + i]
        <4>1. \A i \in Len(lead) + 1 .. m : text[i] \in T
          BY <1>1, <1>4, <2>8
        <4>2. /\ c \in Seq(T)
              /\ Len(c) = IF Len(lead) + 1 =< m THEN m - (Len(lead) + 1) + 1 ELSE 0
              /\ \A i \in 1 .. m - (Len(lead) + 1) + 1 : c[i] = text[Len(lead) + 1 + i - 1]
          BY <1>1, <2>8, <4>1, SubSeqProperties
        <4>3. m - (Len(lead) + 1) + 1 = Len(a) + n
          BY <1>1, <1>2, <2>8
        <4>4. \A i \in 1 .. Len(a) + n : Len(lead) + 1 + i - 1 = Len(lead) + i
          BY <1>1, <1>2, <2>8
        <4> HIDE DEF c
        <4>5. \A i \in 1 .. Len(a) + n : c[i] = text[Len(lead) + i]
          BY <4>2, <4>3, <4>4
        <4>. QED  BY <1>1, <1>2, <2>8, <4>2, <4>3, <4>5
      <3>2. /\ d \in Seq(T) /\ Len(d) = Len(a) + n
            /\ \A i \in 1 .. Len(a) : d[i] = a[i]
            /\ \A i \in 1 .. n : d[Len(a) + i] = q[i]
        BY <2>9, Concat
      <3> HIDE DEF c, d
      <3>3. \A i \in 1 .. Len(a) : c[i] = a[i]
        BY <1>1, <1>2, <1>3, <1>4, <2>8, <3>1
      <3>4. \A i \in 1 .. n : c[Len(a) + i] = r[i]
        <4> TAKE i \in 1 .. n
        <4>1. Len(a) + i \in 1 .. Len(a) + n /\ i \in 1 .. Len(r)
          BY <1>2, <2>8
        <4>. QED  BY <2>10, <3>1, <4>1
      <3>5. \A i \in 1 .. Len(a) + n : i > Len(a) => i - Len(a) \in 1 .. n /\ i = Len(a) + (i - Len(a))
        BY <1>2, <2>8
      <3>6. \A i \in 1 .. Len(a) + n : c[i] = d[i]
        <4> TAKE i \in 1 .. Len(a) + n
        <4>1. CASE i =< Len(a)
          BY <1>2, <2>8, <3>2, <3>3, <4>1
        <4>2. CASE i > Len(a)
          <5>1. PICK k \in 1 .. n : i = Len(a) + k
            BY <3>5, <4>2
          <5>. QED  BY <2>9, <3>2, <3>4, <5>1
        <4>. QED  BY <1>2, <2>8, <4>1, <4>2
      <3>7. c = d
        BY <3>1, <3>2, <3>6, SeqEqual
      <3>. QED  BY <3>7 DEF c, d
    <2>15. Trim(text) = a \o q
      BY <1>5, <2>2, <2>6, <2>14
    <2>. QED  BY <2>13, <2>15 DEF text, body
  <1>. QED  BY <1>7, <1>8

\* The parts of a text, and the text they make.
AreParts(s, l, h, p, r) == IsScheme(s) /\ IsUserInfo(l) /\ IsHost(h) /\ IsPort(p) /\ IsRest(r)
Whole(s, l, h, p, r) == s \o ((l \o (h \o PortPart(p))) \o r)

\* Parts are texts, and so is whatever is put together from them.
LEMMA PartsAreSeqs ==
  ASSUME NEW s, NEW l, NEW h, NEW p, NEW r, AreParts(s, l, h, p, r)
  PROVE  /\ s \in Seq(T) /\ l \in Seq(T) /\ h \in Seq(T) /\ p \in Seq(T) /\ r \in Seq(T)
         /\ PortPart(p) \in Seq(T) /\ h \o PortPart(p) \in Seq(T)
         /\ l \o (h \o PortPart(p)) \in Seq(T)
         /\ (l \o (h \o PortPart(p))) \o r \in Seq(T)
         /\ Whole(s, l, h, p, r) \in Seq(T)
         /\ <<>> \in Seq(T) /\ <<>> \in Seq({"space"})
  <1>1. s \in Seq(T) /\ l \in Seq(T) /\ h \in Seq(T) /\ p \in Seq(T) /\ r \in Seq(T)
    BY DEF AreParts, IsScheme, IsUserInfo, IsHost, IsPort, IsRest
  <1>2. PortPart(p) \in Seq(T) /\ h \o PortPart(p) \in Seq(T)
    BY HostPort DEF AreParts
  <1>3. l \o (h \o PortPart(p)) \in Seq(T)
    BY <1>1, <1>2, Concat
  <1>4. (l \o (h \o PortPart(p))) \o r \in Seq(T)
    BY <1>1, <1>3, Concat
  <1>5. Whole(s, l, h, p, r) \in Seq(T)
    BY <1>1, <1>4, Concat DEF Whole
  <1>. QED  BY <1>1, <1>2, <1>3, <1>4, <1>5, EmptySeq

\* Two parts without white space around them have none around the two together.
LEMMA SolidConcat ==
  ASSUME NEW a \in Seq(T), Solid(a), NEW b \in Seq(T), Solid(b)
  PROVE  Solid(a \o b)
  <1> DEFINE c == a \o b
  <1>1. /\ Len(a) \in Nat /\ Len(b) \in Nat /\ Len(c) = Len(a) + Len(b)
        /\ a # <<>> <=> Len(a) > 0
        /\ b # <<>> <=> Len(b) > 0
        /\ \A i \in 1 .. Len(a) : c[i] = a[i]
        /\ \A i \in 1 .. Len(b) : c[Len(a) + i] = b[i]
    BY Concat, EmptyOrNot
  <1>2. CASE a = <<>>
    BY <1>2, ConcatEmptySeq
  <1>3. CASE b = <<>>
    BY <1>3, ConcatEmptySeq
  <1>4. CASE a # <<>> /\ b # <<>>
    <2> HIDE DEF c
    <2>1. c[1] = a[1] /\ c[Len(c)] = b[Len(b)]
      BY <1>1, <1>4
    <2>. QED  BY <1>4, <2>1 DEF Solid, c
  <1>. QED  BY <1>2, <1>3, <1>4

\* No part but the rest begins or ends with white space.
LEMMA PartsAreSolid ==
  ASSUME NEW s, NEW l, NEW h, NEW p, NEW r, AreParts(s, l, h, p, r)
  PROVE  Solid(s \o (l \o (h \o PortPart(p))))
  <1> DEFINE hp == h \o PortPart(p)
  <1>1. s \in Seq(T) /\ l \in Seq(T) /\ hp \in Seq(T) /\ l \o hp \in Seq(T)
    BY PartsAreSeqs
  <1>2. Solid(s)
    BY DEF Solid, AreParts, IsScheme, Marks
  <1>3. Solid(l)
    BY DEF Solid, AreParts, IsUserInfo
  <1>4. Solid(hp)
    <2>1. Free(hp, Marks \ {":"})
      BY HostPort DEF AreParts
    <2>2. hp # <<>> => 1 \in 1 .. Len(hp) /\ Len(hp) \in 1 .. Len(hp)
      BY <1>1, EmptyOrNot
    <2> HIDE DEF hp
    <2>. QED  BY <2>1, <2>2 DEF Solid, Free, Marks
  <1>5. Solid(l \o hp)
    BY <1>1, <1>3, <1>4, SolidConcat
  <1>. QED  BY <1>1, <1>2, <1>5, SolidConcat

\* Trimming a text leaves the text of the same parts, but for the end of its rest.
LEMMA TrimWhole ==
  ASSUME NEW s, NEW l, NEW h, NEW p, NEW r, AreParts(s, l, h, p, r), NEW lead \in Seq({"space"})
  PROVE  \E q : /\ Trimmed(q, r) /\ AreParts(s, l, h, p, q)
                /\ Trim(lead \o Whole(s, l, h, p, r)) = Whole(s, l, h, p, q)
  <1> DEFINE b == l \o (h \o PortPart(p))
  <1>1. s \in Seq(T) /\ b \in Seq(T) /\ r \in Seq(T) /\ s \o b \in Seq(T) /\ IsRest(r)
    BY PartsAreSeqs, Concat DEF AreParts
  <1>2. Solid(s \o b)
    BY PartsAreSolid
  <1> HIDE DEF b
  <1>3. PICK q : Trimmed(q, r) /\ Trim(lead \o ((s \o b) \o r)) = (s \o b) \o q
    <2> DEFINE a == s \o b
    <2>1. a \in Seq(T) /\ Solid(a) /\ IsRest(r)
      BY <1>1, <1>2
    <2> HIDE DEF a
    <2>2. \E q : Trimmed(q, r) /\ Trim(lead \o (a \o r)) = a \o q
      BY <2>1, TrimIs
    <2>. QED  BY <2>2 DEF a
  <1>4. q \in Seq(T) /\ AreParts(s, l, h, p, q)
    BY <1>3 DEF Trimmed, AreParts, IsRest
  <1>5. (s \o b) \o r = s \o (b \o r)
    BY <1>1, ConcatAssociative
  <1>7. (s \o b) \o q = s \o (b \o q)
    BY <1>1, <1>4, ConcatAssociative
  <1>6. Trim(lead \o (s \o (b \o r))) = s \o (b \o q)
    BY <1>3, <1>5, <1>7
  <1>. QED  BY <1>3, <1>4, <1>6 DEF Whole, b

\* A text without white space around it stays as it is.
LEMMA TrimAgain ==
  ASSUME NEW s, NEW l, NEW h, NEW p, NEW q, AreParts(s, l, h, p, q), q # <<>> => q[Len(q)] # "space"
  PROVE  Trim(Whole(s, l, h, p, q)) = Whole(s, l, h, p, q)
  <1>1. Whole(s, l, h, p, q) \in Seq(T) /\ <<>> \in Seq({"space"})
    BY PartsAreSeqs
  <1>2. <<>> \o Whole(s, l, h, p, q) = Whole(s, l, h, p, q)
    BY <1>1, ConcatEmptySeq
  <1>3. PICK t : Trimmed(t, q) /\ Trim(<<>> \o Whole(s, l, h, p, q)) = Whole(s, l, h, p, t)
    <2> DEFINE lead == <<>>
    <2>1. lead \in Seq({"space"})
      BY <1>1
    <2> HIDE DEF lead
    <2>2. \E t : /\ Trimmed(t, q) /\ AreParts(s, l, h, p, t)
                 /\ Trim(lead \o Whole(s, l, h, p, q)) = Whole(s, l, h, p, t)
      BY <2>1, TrimWhole
    <2>. QED  BY <2>2 DEF lead
  <1>4. t = q
    BY <1>3 DEF Trimmed
  <1>. QED  BY <1>2, <1>3, <1>4

\* A scheme is found if there is one; nothing else is taken for one.
LEMMA PrefixIs ==
  ASSUME NEW s, NEW l, NEW h, NEW p, NEW r, AreParts(s, l, h, p, r)
  PROVE  SchemePrefixLen(Whole(s, l, h, p, r)) = Len(s)
  <1> DEFINE b == l \o (h \o PortPart(p))
             c == b \o r
             text == s \o c
  <1>1. s \in Seq(T) /\ b \in Seq(T) /\ r \in Seq(T) /\ c \in Seq(T)
    BY PartsAreSeqs
  <1>2. CASE s # <<>>
    <2>1. Len(s) = 2 /\ s[1] \notin Marks /\ s[2] = "://"
      BY <1>2 DEF AreParts, IsScheme
    <2>2. Len(text) > 1 /\ text[1] = s[1] /\ text[2] = s[2]
      <3> HIDE DEF c
      <3>1. Len(text) = Len(s) + Len(c) /\ Len(c) \in Nat /\ \A i \in 1 .. Len(s) : text[i] = s[i]
        BY <1>1, Concat
      <3> HIDE DEF text
      <3>. QED  BY <2>1, <3>1
    <2> HIDE DEF text
    <2>. QED  BY <2>1, <2>2 DEF SchemePrefixLen, Whole, text
  <1>3. CASE s = <<>>
    <2>1. text = c /\ Len(s) = 0
      BY <1>1, <1>3, ConcatEmptySeq, EmptyOrNot
    <2>2. Free(b, Ends)
      <3>1. Free(h \o PortPart(p), Ends) /\ Free(l, Ends)
        BY HostPort DEF AreParts, IsUserInfo, Free, Ends, Marks
      <3>. QED  BY <3>1, PartsAreSeqs, FreeConcat
    <2>3. r # <<>> => r[1] \in {"/", "?"}
      BY DEF AreParts, IsRest
    <2> HIDE DEF b
    <2>4. /\ Len(b) \in Nat /\ Len(r) \in Nat /\ Len(c) = Len(b) + Len(r)
          /\ \A i \in 1 .. Len(b) : c[i] = b[i]
          /\ \A i \in 1 .. Len(r) : c[Len(b) + i] = r[i]
          /\ r # <<>> <=> Len(r) > 0
      BY <1>1, Concat, EmptyOrNot
    <2> HIDE DEF c
    <2>5. ASSUME Len(c) > 1, c[1] \notin Marks, c[2] = "://" PROVE FALSE
      <3>1. CASE Len(b) = 0
        <4>1. Len(r) > 0 /\ c[0 + 1] = r[1]
          BY <2>4, <2>5, <3>1
        <4>. QED  BY <2>3, <2>4, <2>5, <4>1 DEF Marks
      <3>2. CASE Len(b) = 1
        <4>1. Len(r) > 0 /\ c[1 + 1] = r[1]
          BY <2>4, <2>5, <3>2
        <4>. QED  BY <2>3, <2>4, <2>5, <4>1
      <3>3. CASE Len(b) > 1
        BY <2>2, <2>4, <2>5, <3>3 DEF Free, Ends
      <3>. QED  BY <2>4, <3>1, <3>2, <3>3
    <2>6. SchemePrefixLen(c) = 0
      BY <2>5 DEF SchemePrefixLen
    <2>. QED  BY <2>1, <2>6 DEF Whole, c, b
  <1>. QED  BY <1>2, <1>3

\* The scheme of a server, and its host as it is sent.
SchemeOf(s) == IF s = <<>> THEN "http" ELSE Lower(s[1])
HostIn(scheme, h) == IF scheme \in Special THEN Domain(h) ELSE h

\* The server that parts make, if they make one.
IsForbidden(scheme, h) == scheme \in Special /\ ToSet(h) \cap Forbidden # {}
ServerOf(s, h, p) == IF h = <<>> \/ IsForbidden(SchemeOf(s), h) \/ "bad" \in ToSet(p) THEN {}
                     ELSE {Rendered(SchemeOf(s), HostIn(SchemeOf(s), h), p)}

\* A URL parser reads the server of the parts back from their text.
LEMMA WhatwgIs ==
  ASSUME NEW s, NEW l, NEW h, NEW p, NEW r, AreParts(s, l, h, p, r), s # <<>>
  PROVE  Whatwg(Whole(s, l, h, p, r)) = ServerOf(s, h, p)
  <1>1. Parts(Whole(s, l, h, p, r)) = [scheme |-> Lower(s[1]), host |-> h, port |-> p]
    BY PartsIs DEF Whole, AreParts
  <1>. QED  BY <1>1 DEF Whatwg, ServerOf, IsForbidden, SchemeOf, HostIn

\* A text without a scheme is read as one of an HTTP proxy.
LEMMA WithSchemeIs ==
  ASSUME NEW s, NEW l, NEW h, NEW p, NEW r, AreParts(s, l, h, p, r)
  PROVE  \E t : /\ AreParts(t, l, h, p, r) /\ t # <<>> /\ SchemeOf(t) = SchemeOf(s)
                /\ WithScheme(Whole(s, l, h, p, r)) = Whole(t, l, h, p, r)
                /\ IF s = <<>> THEN t = Http ELSE t = s
  <1> DEFINE c == (l \o (h \o PortPart(p))) \o r
  <1>1. c \in Seq(T) /\ s \in Seq(T)
    BY PartsAreSeqs
  <1>2. SchemePrefixLen(Whole(s, l, h, p, r)) = Len(s)
    BY PrefixIs
  <1>3. CASE s # <<>>
    <2>1. Len(s) > 0
      BY <1>1, <1>3, EmptyOrNot
    <2>. QED  BY <1>2, <1>3, <2>1 DEF WithScheme
  <1>4. CASE s = <<>>
    <2>1. Len(s) = 0 /\ Whole(s, l, h, p, r) = c
      BY <1>1, <1>4, EmptyOrNot, ConcatEmptySeq DEF Whole
    <2>2. WithScheme(Whole(s, l, h, p, r)) = Http \o c
      BY <1>2, <2>1 DEF WithScheme
    <2>3. Http # <<>> /\ Http[1] = "http" /\ Http[2] = "://" /\ Len(Http) = 2
      BY DEF Http
    <2>4. Http \in Seq(T)
      BY DEF Http, T, Marks
    <2>5. IsScheme(Http)
      BY <2>3, <2>4 DEF IsScheme, Marks
    <2>6. SchemeOf(Http) = "http" /\ SchemeOf(s) = "http"
      BY <1>4, <2>3 DEF SchemeOf, Lower
    <2>7. AreParts(Http, l, h, p, r)
      BY <2>5 DEF AreParts
    <2>. QED  BY <1>4, <2>2, <2>3, <2>6, <2>7 DEF Whole
  <1>. QED  BY <1>3, <1>4

\* Without a scheme, a "://" is one of the rest.
LEMMA NoScheme ==
  ASSUME NEW l, NEW h, NEW p, NEW r, AreParts(<<>>, l, h, p, r)
  PROVE  /\ Contains(Whole(<<>>, l, h, p, r), "://") <=> "://" \in ToSet(r)
         /\ Whole(<<>>, l, h, p, r) = <<>> => h = <<>>
  <1> DEFINE hp == h \o PortPart(p)
             b == l \o hp
             c == b \o r
  <1>1. hp \in Seq(T) /\ l \in Seq(T) /\ b \in Seq(T) /\ r \in Seq(T) /\ c \in Seq(T)
    BY PartsAreSeqs
  <1>2. Whole(<<>>, l, h, p, r) = c
    BY <1>1, ConcatEmptySeq DEF Whole
  <1>3. Free(b, {"://"})
    <2>1. Free(hp, {"://"}) /\ Free(l, {"://"})
      BY HostPort DEF AreParts, IsUserInfo, Free, Ends, Marks
    <2>. QED  BY <1>1, <2>1, FreeConcat
  <1>4. c = <<>> => h = <<>>
    <2>1. c = <<>> => b = <<>>
      BY <1>1, ConcatEqualIffEmpty
    <2>2. b = <<>> => hp = <<>>
      BY <1>1, ConcatEqualIffEmpty
    <2>3. hp = <<>> => h = <<>>
      BY HostPort DEF AreParts
    <2>. QED  BY <2>1, <2>2, <2>3
  <1> HIDE DEF b
  <1>5. Free(c, {"://"}) <=> Free(r, {"://"})
    BY <1>1, <1>3, FreeConcat
  <1> HIDE DEF c
  <1>6. Contains(c, "://") <=> ~Free(c, {"://"})
    BY DEF Contains, Free
  <1>7. "://" \in ToSet(r) <=> ~Free(r, {"://"})
    BY <1>1, LenProperties DEF ToSet, Free
  <1>. QED  BY <1>2, <1>4, <1>5, <1>6, <1>7

\* What each client makes of a text: the server of its parts.
LEMMA NormalizeIs ==
  ASSUME NEW s, NEW l, NEW h, NEW p, NEW r, AreParts(s, l, h, p, r), NEW lead \in Seq({"space"})
  PROVE  LET text == lead \o Whole(s, l, h, p, r)
         IN /\ NormalizeNode(text) = ServerOf(s, h, p)
            /\ NormalizeRust(text) = IF s = <<>> /\ "://" \in ToSet(r) THEN {} ELSE ServerOf(s, h, p)
            /\ h # <<>> => NormalizePython(text) = IF "bad" \in ToSet(p) THEN {}
                                                   ELSE {Rendered(SchemeOf(s), PythonHost(h), p)}
  <1> DEFINE text == lead \o Whole(s, l, h, p, r)
  <1>1. PICK q : /\ Trimmed(q, r) /\ AreParts(s, l, h, p, q)
                 /\ Trim(text) = Whole(s, l, h, p, q)
    BY TrimWhole
  <1> DEFINE raw == Whole(s, l, h, p, q)
  <1>2. PICK t : /\ AreParts(t, l, h, p, q) /\ t # <<>> /\ SchemeOf(t) = SchemeOf(s)
                 /\ WithScheme(raw) = Whole(t, l, h, p, q)
                 /\ IF s = <<>> THEN t = Http ELSE t = s
    BY <1>1, WithSchemeIs
  <1>3. Whatwg(WithScheme(raw)) = ServerOf(s, h, p)
    BY <1>2, WhatwgIs DEF ServerOf
  <1>4. SchemePrefixLen(raw) = Len(s) /\ Len(s) \in Nat /\ (s = <<>> <=> Len(s) = 0)
    BY <1>1, PrefixIs, PartsAreSeqs, EmptyOrNot
  <1>5. NormalizeNode(text) = ServerOf(s, h, p)
    BY <1>1, <1>3 DEF NormalizeNode
  <1>6. NormalizeRust(text) = IF s = <<>> /\ "://" \in ToSet(r) THEN {} ELSE ServerOf(s, h, p)
    <2>1. NormalizeRust(text) = IF raw = <<>> \/ (Len(s) = 0 /\ Contains(raw, "://")) THEN {}
                                ELSE ServerOf(s, h, p)
      BY <1>1, <1>3, <1>4 DEF NormalizeRust
    <2>2. CASE s = <<>>
      <3>1. Contains(raw, "://") <=> "://" \in ToSet(q)
        BY <1>1, <2>2, NoScheme
      <3>2. "://" \in ToSet(q) <=> "://" \in ToSet(r)
        BY <1>1 DEF Trimmed
      <3>3. raw = <<>> => ServerOf(s, h, p) = {}
        BY <1>1, <2>2, NoScheme DEF ServerOf
      <3>. QED  BY <1>4, <2>1, <2>2, <3>1, <3>2, <3>3
    <2>3. CASE s # <<>>
      <3>1. raw # <<>>
        BY <1>1, <2>3, PartsAreSeqs, ConcatEqualIffEmpty DEF Whole
      <3>. QED  BY <1>4, <2>1, <2>3, <3>1
    <2>. QED  BY <2>2, <2>3
  <1>7. ASSUME h # <<>>
        PROVE  NormalizePython(text) = IF "bad" \in ToSet(p) THEN {}
                                       ELSE {Rendered(SchemeOf(s), PythonHost(h), p)}
    <2> DEFINE whole == SchemePrefixLen(raw) > 0 /\ Authority(From(raw, 3)) # <<>>
               url == Parts(IF whole THEN raw ELSE Http \o raw)
    <2>1. (IF whole THEN raw ELSE Http \o raw) = Whole(t, l, h, p, q)
      <3>1. CASE s = <<>>
        BY <1>2, <1>4, <3>1 DEF WithScheme
      <3>2. CASE s # <<>>
        <4> DEFINE b == l \o (h \o PortPart(p))
        <4>1. /\ s \in Seq(T) /\ b \in Seq(T) /\ b \o q \in Seq(T) /\ Len(s) = 2
              /\ l \in Seq(T) /\ h \o PortPart(p) \in Seq(T)
          BY <1>1, <3>2, PartsAreSeqs DEF AreParts, IsScheme
        <4>2. From(raw, Len(s) + 1) = b \o q
          BY <4>1, CutTail DEF Whole
        <4>3. Free(b, Ends)
          <5>1. Free(h \o PortPart(p), Ends) /\ Free(l, Ends)
            BY HostPort DEF AreParts, IsUserInfo, Free, Ends, Marks
          <5>. QED  BY <4>1, <5>1, FreeConcat
        <4>4. b # <<>>
          <5>1. h \o PortPart(p) # <<>>
            BY <1>7, HostPort DEF AreParts
          <5>. QED  BY <4>1, <5>1, ConcatEqualIffEmpty
        <4>5. IsRest(q)
          BY <1>1 DEF AreParts
        <4> HIDE DEF b
        <4>6. Authority(From(raw, 3)) = b
          <5>1. Authority(b \o q) = b
            BY <4>1, <4>3, <4>5, AuthorityIs
          <5>2. From(raw, 3) = b \o q
            BY <4>1, <4>2
          <5>. QED  BY <5>1, <5>2
        <4>7. whole
          BY <1>4, <3>2, <4>1, <4>4, <4>6
        <4>. QED  BY <1>2, <3>2, <4>7
      <3>. QED  BY <3>1, <3>2
    <2>2. Parts(Whole(t, l, h, p, q)) = [scheme |-> Lower(t[1]), host |-> h, port |-> p]
      BY <1>2, PartsIs DEF Whole, AreParts
    <2>3. Lower(t[1]) = SchemeOf(s)
      BY <1>2 DEF SchemeOf
    <2>4. url = [scheme |-> SchemeOf(s), host |-> h, port |-> p]
      BY <2>1, <2>2, <2>3
    <2>5. NormalizePython(text) = IF "bad" \in ToSet(url.port) THEN {}
                                  ELSE {Rendered(url.scheme, PythonHost(url.host), url.port)}
      BY <1>1 DEF NormalizePython
    <2> HIDE DEF url
    <2>6. url.scheme = SchemeOf(s) /\ url.host = h /\ url.port = p
      BY <2>4
    <2>. QED  BY <2>5, <2>6
  <1>. QED  BY <1>5, <1>6, <1>7

\* The server a client gets from the parts of a text.
ServerFor(s, h, p, r) ==
  IF client = "python" THEN IF "bad" \in ToSet(p) THEN {} ELSE {Rendered(SchemeOf(s), PythonHost(h), p)}
  ELSE IF client = "rust" /\ s = <<>> /\ "://" \in ToSet(r) THEN {} ELSE ServerOf(s, h, p)

\* So does each client, whatever credentials and white space the text has.
LEMMA ServerIs ==
  ASSUME client \in {"rust", "node", "python"},
         NEW s, NEW l, NEW h, NEW p, NEW r, AreParts(s, l, h, p, r), NEW lead \in Seq({"space"}),
         client = "python" => h # <<>>
  PROVE  NormalizeServer(lead \o Whole(s, l, h, p, r)) = ServerFor(s, h, p, r)
  <1> DEFINE text == lead \o Whole(s, l, h, p, r)
  <1>1. /\ NormalizeNode(text) = ServerOf(s, h, p)
        /\ NormalizeRust(text) = IF s = <<>> /\ "://" \in ToSet(r) THEN {} ELSE ServerOf(s, h, p)
        /\ h # <<>> => NormalizePython(text) = IF "bad" \in ToSet(p) THEN {}
                                               ELSE {Rendered(SchemeOf(s), PythonHost(h), p)}
    BY NormalizeIs
  <1> HIDE DEF text
  <1>2. CASE client = "rust"
    <2>1. NormalizeServer(text) = NormalizeRust(text)
      BY <1>2 DEF NormalizeServer
    <2>2. ServerFor(s, h, p, r) = IF s = <<>> /\ "://" \in ToSet(r) THEN {} ELSE ServerOf(s, h, p)
      BY <1>2 DEF ServerFor
    <2>3. NormalizeServer(text) = ServerFor(s, h, p, r)
      BY <1>1, <1>2, <2>1, <2>2
    <2>. QED  BY <2>3 DEF text
  <1>3. CASE client = "node"
    <2>1. NormalizeServer(text) = NormalizeNode(text)
      BY <1>3 DEF NormalizeServer
    <2>2. ServerFor(s, h, p, r) = ServerOf(s, h, p)
      BY <1>3 DEF ServerFor
    <2>3. NormalizeServer(text) = ServerFor(s, h, p, r)
      BY <1>1, <1>3, <2>1, <2>2
    <2>. QED  BY <2>3 DEF text
  <1>4. CASE client = "python"
    <2>1. NormalizeServer(text) = NormalizePython(text)
      BY <1>4 DEF NormalizeServer
    <2>2. ServerFor(s, h, p, r) = IF "bad" \in ToSet(p) THEN {} ELSE {Rendered(SchemeOf(s), PythonHost(h), p)}
      BY <1>4 DEF ServerFor
    <2>3. NormalizeServer(text) = ServerFor(s, h, p, r)
      BY <1>1, <1>4, <2>1, <2>2
    <2>. QED  BY <2>3 DEF text
  <1>. QED  BY <1>2, <1>3, <1>4 DEF text

\* Credentials in a text, and the mark after them.
Marked(m) == m \o <<"@">>

\* Where the three pieces of a text are: before the credentials, they, and after.
Pieces(pre, m, c) ==
  LET raw == pre \o (Marked(m) \o c)
      at == Len(pre) + Len(Marked(m))
  IN /\ SubSeq(raw, 1, Len(pre)) = pre
     /\ SubSeq(raw, Len(pre) + 1, at - 1) = m
     /\ From(raw, at + 1) = c

\* The three pieces of a text with credentials are cut out as they were put in.
LEMMA Cuts ==
  ASSUME NEW pre \in Seq(T), NEW m \in Seq(T), NEW c \in Seq(T)
  PROVE  Pieces(pre, m, c)
  <1> DEFINE mark == <<"@">>
             l == m \o mark
             raw == pre \o (l \o c)
  <1>0. mark \in Seq(T) /\ Len(mark) = 1
    BY DEF T, Marks
  <1> HIDE DEF mark
  <1>1. l \in Seq(T) /\ l \o c \in Seq(T) /\ pre \o l \in Seq(T)
    BY <1>0, Concat
  <1>2. SubSeq(raw, 1, Len(pre)) = pre
    BY <1>1, CutHead
  <1>3. /\ Len(pre) \in Nat /\ Len(m) \in Nat
        /\ Len(l) = Len(m) + 1 /\ Len(pre \o l) = Len(pre) + Len(l)
        /\ Len(raw) = Len(pre) + Len(l \o c) /\ Len(l \o c) = Len(l) + Len(c) /\ Len(c) \in Nat
        /\ raw \in Seq(T)
    <2>1. Len(pre) \in Nat /\ Len(m) \in Nat /\ Len(c) \in Nat /\ Len(l) = Len(m) + 1
      <3>1. Len(l) = Len(m) + Len(mark) /\ Len(m) \in Nat
        BY <1>0, Concat
      <3>. QED  BY <1>0, <3>1, LenProperties
    <2>2. Len(pre \o l) = Len(pre) + Len(l) /\ Len(l \o c) = Len(l) + Len(c)
      BY <1>1, Concat
    <2>3. Len(raw) = Len(pre) + Len(l \o c) /\ raw \in Seq(T)
      BY <1>1, Concat
    <2>. QED  BY <2>1, <2>2, <2>3
  <1>4. raw = (pre \o l) \o c
    BY <1>1, ConcatAssociative
  <1>5. From(raw, Len(pre) + Len(l) + 1) = c
    BY <1>1, <1>3, <1>4, CutTail
  <1>6. SubSeq(raw, Len(pre) + 1, Len(pre) + Len(l) - 1) = m
    <2> DEFINE d == SubSeq(raw, Len(pre) + 1, Len(pre) + Len(m))
    <2>1. \A i \in 1 .. Len(m) : raw[Len(pre) + i] = m[i]
      <3> TAKE i \in 1 .. Len(m)
      <3>1. i \in 1 .. Len(l) /\ i \in 1 .. Len(l \o c)
        BY <1>3
      <3>2. raw[Len(pre) + i] = (l \o c)[i]
        BY <1>1, <3>1, Concat
      <3>3. (l \o c)[i] = l[i]
        BY <1>1, <3>1, Concat
      <3>4. l[i] = m[i]
        BY <1>0, Concat
      <3>. QED  BY <3>2, <3>3, <3>4
    <2> HIDE DEF raw
    <2>2. d \in Seq(T) /\ Len(d) = Len(m) /\ \A i \in 1 .. Len(m) : d[i] = raw[Len(pre) + i]
      BY <1>3
    <2>3. d = m
      BY <2>1, <2>2, SeqEqual
    <2>4. Len(pre) + Len(l) - 1 = Len(pre) + Len(m)
      BY <1>3
    <2>. QED  BY <2>3, <2>4
  <1>. QED  BY <1>2, <1>5, <1>6 DEF Pieces, Marked, mark

\* The place of the last "@" between two positions, 0 if there is none.
AtIn(raw, from, to) == SelectLastInSubSeq(raw, from, to, LAMBDA t : t = "@")

\* The "@" behind which there is no other is the one found.
LEMMA LastAt ==
  ASSUME NEW raw, NEW from \in Int, NEW to \in Int, NEW k \in from .. to,
         raw[k] = "@", \A i \in from .. to : raw[i] = "@" => i =< k
  PROVE  AtIn(raw, from, to) = k
  <1> DEFINE I == {i \in from .. to : raw[i] = "@"}
  <1>1. AtIn(raw, from, to) = IF I # {} THEN Max(I) ELSE 0
    BY DEF AtIn, SelectLastInSubSeq
  <1>2. k \in I /\ I \in SUBSET Int /\ \A i \in I : k >= i
    OBVIOUS
  <1>3. Max(I) = k
    BY <1>2, MaxIs
  <1>. QED  BY <1>1, <1>2, <1>3

\* Where there is no "@", none is found.
LEMMA NoAt ==
  ASSUME NEW raw, NEW from, NEW to, \A i \in from .. to : raw[i] # "@"
  PROVE  AtIn(raw, from, to) = 0
  BY DEF AtIn, SelectLastInSubSeq

\* The two halves of the credentials in a text, each decoded.
Colon(m) == SelectInSeq(m, LAMBDA t : t = ":")
UserOf(m) == IF Colon(m) = 0 THEN m ELSE SubSeq(m, 1, Colon(m) - 1)
PasswordOf(m) == IF Colon(m) = 0 THEN {} ELSE {Decode(From(m, Colon(m) + 1))}

\* A client reads raw in a text, and finds the credentials l behind pre.
Found(text, raw, pre, l) ==
  /\ (IF client = "python" THEN text ELSE Trim(text)) = raw
  /\ LoginStart(raw) = Len(pre)
  /\ AtIn(raw, IF client = "python" THEN 1 ELSE Len(pre) + 1, LoginReach(raw))
       = IF l = <<>> THEN 0 ELSE Len(pre) + Len(l)

\* It parses the text to a server and these credentials.
ParsesTo(text, l, server) ==
  /\ l = <<>> => ParseText(text) = Option(server, {}, {})
  /\ \A m \in Seq(T) : l = Marked(m) =>
       ParseText(text) = IF ToSet(m) \cap Undecodable # {} THEN {}
                         ELSE Option(server, {Decode(UserOf(m))}, PasswordOf(m))

\* Credentials that were found are cut out, and the server is of what is left.
LEMMA FoundLogin ==
  ASSUME NEW text, NEW pre \in Seq(T), NEW l \in Seq(T), NEW hp \in Seq(T), NEW x \in Seq(T),
         Found(text, pre \o ((l \o hp) \o x), pre, l)
  PROVE  ParsesTo(text, l, NormalizeServer(pre \o (hp \o x)))
  <1> DEFINE raw == pre \o ((l \o hp) \o x)
             at == AtIn(raw, IF client = "python" THEN 1 ELSE Len(pre) + 1, LoginReach(raw))
             login == SubSeq(raw, Len(pre) + 1, at - 1)
             cut == SubSeq(raw, 1, Len(pre)) \o From(raw, at + 1)
  <1>1. ParseText(text) = IF at = 0 THEN Option(NormalizeServer(raw), {}, {})
                          ELSE IF ToSet(login) \cap Undecodable # {} THEN {}
                          ELSE Option(NormalizeServer(cut), {Decode(UserOf(login))}, PasswordOf(login))
    BY DEF Found, ParseText, UserOf, PasswordOf, Colon, AtIn
  <1>2. at = IF l = <<>> THEN 0 ELSE Len(pre) + Len(l)
    BY DEF Found
  <1>3. (l \o hp) \o x = l \o (hp \o x) /\ hp \o x \in Seq(T) /\ Len(pre) \in Nat /\ Len(l) \in Nat
    <2>1. (l \o hp) \o x = l \o (hp \o x)
      BY ConcatAssociative
    <2>2. hp \o x \in Seq(T)
      BY Concat
    <2>. QED  BY <2>1, <2>2, LenProperties
  <1> HIDE DEF at
  <1>4. ASSUME l = <<>> PROVE ParseText(text) = Option(NormalizeServer(pre \o (hp \o x)), {}, {})
    <2>1. raw = pre \o (hp \o x)
      BY <1>3, <1>4, ConcatEmptySeq
    <2>2. at = 0
      BY <1>2, <1>4
    <2> HIDE DEF raw
    <2>. QED  BY <1>1, <2>1, <2>2
  <1>5. ASSUME NEW m \in Seq(T), l = Marked(m)
        PROVE  ParseText(text) = IF ToSet(m) \cap Undecodable # {} THEN {}
                                 ELSE Option(NormalizeServer(pre \o (hp \o x)),
                                             {Decode(UserOf(m))}, PasswordOf(m))
    <2>1. l # <<>>
      <3>1. <<"@">> \in Seq(T) /\ <<"@">> # <<>>
        BY DEF T, Marks
      <3>. QED  BY <1>5, <3>1, ConcatEqualIffEmpty DEF Marked
    <2>2. at = Len(pre) + Len(l) /\ at # 0
      BY <1>2, <1>3, <2>1, EmptyOrNot
    <2> DEFINE c == hp \o x
    <2>3. raw = pre \o (l \o c) /\ c \in Seq(T)
      BY <1>3
    <2> HIDE DEF raw, c
    <2>4. /\ SubSeq(raw, 1, Len(pre)) = pre
          /\ SubSeq(raw, Len(pre) + 1, at - 1) = m
          /\ From(raw, at + 1) = c
      <3>1. Pieces(pre, m, c)
        BY <2>3, Cuts
      <3>2. raw = pre \o (Marked(m) \o c) /\ at = Len(pre) + Len(Marked(m))
        BY <1>5, <2>2, <2>3
      <3>. QED  BY <3>1, <3>2 DEF Pieces
    <2>5. login = m /\ cut = pre \o c
      BY <2>4
    <2> HIDE DEF login, cut
    <2>. QED  BY <1>1, <2>2, <2>5 DEF c
  <1>. QED  BY <1>4, <1>5 DEF ParsesTo

\* The Rust and the Node client look for credentials in the authority.
LEMMA FoundInAuthority ==
  ASSUME client \in {"rust", "node"},
         NEW s, NEW l, NEW h, NEW p, NEW q, AreParts(s, l, h, p, q)
  PROVE  LET raw == Whole(s, l, h, p, q)
         IN /\ LoginStart(raw) = Len(s)
            /\ AtIn(raw, Len(s) + 1, LoginReach(raw)) = IF l = <<>> THEN 0 ELSE Len(s) + Len(l)
  <1> DEFINE hp == h \o PortPart(p)
             b == l \o hp
             c == b \o q
             raw == s \o c
             to == Len(s) + Len(b)
  <1>1. /\ s \in Seq(T) /\ l \in Seq(T) /\ hp \in Seq(T) /\ b \in Seq(T) /\ q \in Seq(T) /\ c \in Seq(T)
        /\ IsRest(q) /\ IsUserInfo(l)
    BY PartsAreSeqs DEF AreParts
  <1>2. LoginStart(raw) = Len(s)
    BY PrefixIs DEF LoginStart, Whole
  <1>3. Free(hp, Ends) /\ Free(l, Ends) /\ Free(hp, {"@"})
    BY HostPort DEF AreParts, IsUserInfo, Free, Ends, Marks
  <1>4. Free(b, Ends)
    BY <1>1, <1>3, FreeConcat
  <1> HIDE DEF hp
  <1>5. /\ Len(s) \in Nat /\ Len(l) \in Nat /\ Len(hp) \in Nat /\ Len(b) \in Nat
        /\ Len(b) = Len(l) + Len(hp)
        /\ l # <<>> => Len(l) > 0 /\ b[Len(l)] = "@"
        /\ \A i \in 1 .. Len(b) : b[i] = "@" => i =< Len(l)
    <2>1. /\ Len(l) \in Nat /\ Len(hp) \in Nat /\ Len(b) = Len(l) + Len(hp) /\ Len(s) \in Nat
          /\ \A i \in 1 .. Len(l) : b[i] = l[i]
          /\ \A i \in 1 .. Len(b) : i > Len(l) => i - Len(l) \in 1 .. Len(hp) /\ b[i] = hp[i - Len(l)]
          /\ l # <<>> => Len(l) > 0
      BY <1>1, Concat, EmptyOrNot
    <2>2. l # <<>> => l[Len(l)] = "@"
      BY <1>1 DEF IsUserInfo
    <2> HIDE DEF b
    <2>. QED  BY <1>3, <2>1, <2>2 DEF Free
  <1> HIDE DEF b
  <1>6. Authority(c) = b
    BY <1>1, <1>4, AuthorityIs
  <1>7. From(raw, Len(s) + 1) = c
    BY <1>1, CutTail
  <1>8. \A i \in 1 .. Len(b) : raw[Len(s) + i] = b[i]
    <2> TAKE i \in 1 .. Len(b)
    <2>1. i \in 1 .. Len(c) /\ c[i] = b[i]
      BY <1>1, Concat
    <2> HIDE DEF c
    <2>. QED  BY <1>1, <2>1, Concat
  <1> HIDE DEF c, raw
  <1>9. LoginReach(raw) = to
    BY <1>2, <1>6, <1>7 DEF LoginReach
  <1>10. \A i \in Len(s) + 1 .. to : i - Len(s) \in 1 .. Len(b) /\ raw[i] = b[i - Len(s)]
    <2> TAKE i \in Len(s) + 1 .. to
    <2>1. i - Len(s) \in 1 .. Len(b) /\ Len(s) + (i - Len(s)) = i
      BY <1>5
    <2>. QED  BY <1>8, <2>1
  <1>11. \A i \in Len(s) + 1 .. to : raw[i] = "@" => i =< Len(s) + Len(l)
    BY <1>5, <1>10
  <1>12. l = <<>> => \A i \in Len(s) + 1 .. to : raw[i] # "@"
    BY <1>1, <1>5, <1>11, EmptyOrNot
  <1>13. l # <<>> => /\ Len(s) + 1 =< Len(s) + Len(l) /\ Len(s) + Len(l) =< to
                     /\ raw[Len(s) + Len(l)] = "@"
    BY <1>5, <1>8
  <1>14. Len(s) + 1 \in Int /\ to \in Int
    BY <1>5
  <1>15. AtIn(raw, Len(s) + 1, to) = IF l = <<>> THEN 0 ELSE Len(s) + Len(l)
    <2> DEFINE from == Len(s) + 1
               k == Len(s) + Len(l)
    <2>1. /\ from \in Int /\ to \in Int
          /\ \A i \in from .. to : raw[i] = "@" => i =< k
          /\ l = <<>> => \A i \in from .. to : raw[i] # "@"
          /\ l # <<>> => k \in from .. to /\ raw[k] = "@"
      BY <1>1, <1>5, <1>11, <1>12, <1>13, <1>14
    <2> HIDE DEF from, to, k
    <2>2. l = <<>> => AtIn(raw, from, to) = 0
      BY <2>1, NoAt
    <2>3. l # <<>> => AtIn(raw, from, to) = k
      BY <2>1, LastAt
    <2>. QED  BY <2>2, <2>3 DEF from, k
  <1>. QED  BY <1>2, <1>9, <1>15 DEF raw, c, b, hp, Whole

\* The Python client takes the first "://" of the text for the scheme's, and
\* the last "@" for the end of the credentials.
LEMMA FoundInText ==
  ASSUME client = "python",
         NEW s, NEW l, NEW h, NEW p, NEW r, AreParts(s, l, h, p, r), NEW lead \in Seq({"space"}),
         "@" \notin ToSet(r), s = <<>> => lead = <<>> /\ "://" \notin ToSet(r)
  PROVE  LET pre == lead \o s
             raw == pre \o ((l \o (h \o PortPart(p))) \o r)
         IN /\ LoginStart(raw) = Len(pre)
            /\ AtIn(raw, 1, LoginReach(raw)) = IF l = <<>> THEN 0 ELSE Len(pre) + Len(l)
  <1> DEFINE hp == h \o PortPart(p)
             pre == lead \o s
             b == l \o hp
             c == b \o r
             raw == pre \o c
  <1>1. /\ s \in Seq(T) /\ l \in Seq(T) /\ hp \in Seq(T) /\ b \in Seq(T) /\ r \in Seq(T) /\ c \in Seq(T)
        /\ IsUserInfo(l) /\ IsScheme(s)
    BY PartsAreSeqs DEF AreParts
  <1>2. lead \in Seq(T) /\ Free(lead, Marks \ {"space"})
    <2>1. {"space"} \subseteq T
      BY DEF T, Marks
    <2>2. \A i \in 1 .. Len(lead) : lead[i] \in {"space"}
      BY ElementOfSeq
    <2>. QED  BY <2>1, <2>2, SeqMonotonic DEF Free
  <1>3. Free(hp, Ends) /\ Free(l, Ends) /\ Free(hp, {"@"}) /\ Free(r, {"@"})
    <2>1. Free(r, {"@"})
      BY <1>1, LenProperties DEF Free, ToSet
    <2>. QED  BY <2>1, HostPort DEF AreParts, IsUserInfo, Free, Ends, Marks
  <1>4. Free(b, Ends) /\ (s = <<>> => Free(r, {"://"}))
    <2>1. Free(b, Ends)
      BY <1>1, <1>3, FreeConcat
    <2>2. s = <<>> => Free(r, {"://"})
      BY <1>1, LenProperties DEF Free, ToSet
    <2>. QED  BY <2>1, <2>2
  <1> HIDE DEF hp
  <1>5. pre \in Seq(T) /\ Len(pre) \in Nat
    BY <1>1, <1>2, Concat, LenProperties
  <1>6. /\ s = <<>> => Len(pre) = 0
        /\ s # <<>> => Len(pre) > 0 /\ pre[Len(pre)] = "://"
        /\ \A i \in 1 .. Len(pre) : pre[i] # "@" /\ (pre[i] = "://" => i = Len(pre))
    <2>1. CASE s = <<>>
      BY <1>1, <2>1, ConcatEmptySeq, EmptyOrNot
    <2>2. CASE s # <<>>
      <3>1. Len(s) = 2 /\ s[1] \notin Marks /\ s[2] = "://"
        BY <1>1, <2>2 DEF IsScheme
      <3>2. /\ Len(lead) \in Nat /\ Len(pre) = Len(lead) + Len(s)
            /\ \A i \in 1 .. Len(lead) : pre[i] = lead[i]
            /\ \A i \in 1 .. Len(s) : pre[Len(lead) + i] = s[i]
        BY <1>1, <1>2, Concat
      <3> HIDE DEF pre
      <3>3. pre[Len(lead) + 1] = s[1] /\ pre[Len(lead) + 2] = s[2]
        BY <3>1, <3>2
      <3>4. \A i \in 1 .. Len(lead) : pre[i] # "@" /\ pre[i] # "://"
        BY <1>2, <3>2 DEF Free, Marks
      <3>5. \A i \in 1 .. Len(pre) : i \in 1 .. Len(lead) \/ i = Len(lead) + 1 \/ i = Len(lead) + 2
        BY <3>1, <3>2
      <3>6. Len(pre) = Len(lead) + 2 /\ Len(pre) > 0
        BY <3>1, <3>2
      <3>. QED  BY <2>2, <3>1, <3>3, <3>4, <3>5, <3>6 DEF Marks
    <2>. QED  BY <2>1, <2>2
  <1> HIDE DEF pre
  <1>7. /\ Len(l) \in Nat /\ Len(b) \in Nat /\ Len(b) = Len(l) + Len(hp) /\ Len(hp) \in Nat
        /\ l # <<>> => Len(l) > 0 /\ b[Len(l)] = "@"
        /\ \A i \in 1 .. Len(b) : b[i] = "@" => i =< Len(l)
    <2>1. /\ Len(l) \in Nat /\ Len(hp) \in Nat /\ Len(b) = Len(l) + Len(hp) /\ Len(b) \in Nat
          /\ \A i \in 1 .. Len(l) : b[i] = l[i]
          /\ \A i \in 1 .. Len(b) : i > Len(l) => i - Len(l) \in 1 .. Len(hp) /\ b[i] = hp[i - Len(l)]
          /\ l # <<>> => Len(l) > 0
      BY <1>1, Concat, EmptyOrNot
    <2>2. l # <<>> => l[Len(l)] = "@"
      BY <1>1 DEF IsUserInfo
    <2> HIDE DEF b
    <2>. QED  BY <1>3, <2>1, <2>2 DEF Free
  <1> HIDE DEF b
  <1>8. /\ Len(c) \in Nat
        /\ l # <<>> => Len(l) \in 1 .. Len(c) /\ c[Len(l)] = "@"
        /\ \A i \in 1 .. Len(c) : /\ c[i] = "@" => i =< Len(l)
                                  /\ s = <<>> => c[i] # "://"
    <2>1. /\ Len(c) = Len(b) + Len(r) /\ Len(r) \in Nat
          /\ \A i \in 1 .. Len(b) : c[i] = b[i]
          /\ \A i \in 1 .. Len(c) : i > Len(b) => i - Len(b) \in 1 .. Len(r) /\ c[i] = r[i - Len(b)]
      BY <1>1, Concat
    <2> HIDE DEF c
    <2>2. \A i \in 1 .. Len(c) : i \in 1 .. Len(b) \/ i > Len(b)
      BY <1>7, <2>1
    <2>3. \A i \in 1 .. Len(c) : c[i] = "@" => i =< Len(l)
      BY <1>3, <1>7, <2>1, <2>2 DEF Free
    <2>4. s = <<>> => \A i \in 1 .. Len(c) : c[i] # "://"
      BY <1>4, <2>1, <2>2 DEF Free, Ends
    <2>5. l # <<>> => Len(l) \in 1 .. Len(c) /\ Len(l) \in 1 .. Len(b)
      BY <1>7, <2>1
    <2>. QED  BY <1>7, <2>1, <2>3, <2>4, <2>5
  <1>9. /\ raw \in Seq(T) /\ Len(raw) = Len(pre) + Len(c)
        /\ \A i \in 1 .. Len(pre) : raw[i] = pre[i]
        /\ \A i \in 1 .. Len(c) : raw[Len(pre) + i] = c[i]
        /\ \A i \in 1 .. Len(raw) : i > Len(pre) => i - Len(pre) \in 1 .. Len(c) /\ raw[i] = c[i - Len(pre)]
    BY <1>1, <1>5, Concat
  <1> HIDE DEF c, raw
  <1>10. LoginReach(raw) = Len(raw)
    BY DEF LoginReach
  <1>11. LoginStart(raw) = Len(pre)
    <2> DEFINE I == {i \in 1 .. Len(raw) : raw[i] = "://"}
    <2>1. LoginStart(raw) = IF I # {} THEN Min(I) ELSE 0
      BY DEF LoginStart, SelectInSeq
    <2>2. CASE s = <<>>
      <3>1. I = {}
        BY <1>5, <1>6, <1>8, <1>9, <2>2
      <3>. QED  BY <1>6, <2>1, <2>2, <3>1
    <2>3. CASE s # <<>>
      <3>1. Len(pre) \in I /\ I \in SUBSET Int
        BY <1>5, <1>6, <1>8, <1>9, <2>3
      <3>2. \A i \in I : Len(pre) =< i
        BY <1>5, <1>6, <1>8, <1>9
      <3>3. Min(I) = Len(pre)
        BY <3>1, <3>2, MinIs
      <3>. QED  BY <2>1, <3>1, <3>3
    <2>. QED  BY <2>2, <2>3
  <1>12. \A i \in 1 .. Len(raw) : raw[i] = "@" => i =< Len(pre) + Len(l) /\ Len(l) > 0
    <2> TAKE i \in 1 .. Len(raw)
    <2>1. CASE i =< Len(pre)
      BY <1>5, <1>6, <1>9, <2>1
    <2>2. CASE i > Len(pre)
      <3>1. i - Len(pre) \in 1 .. Len(c) /\ raw[i] = c[i - Len(pre)]
        BY <1>9, <2>2
      <3>2. raw[i] = "@" => i - Len(pre) =< Len(l)
        BY <1>8, <3>1
      <3>. QED  BY <1>5, <1>7, <1>8, <3>1, <3>2
    <2>. QED  BY <1>5, <2>1, <2>2
  <1>13. AtIn(raw, 1, LoginReach(raw)) = IF l = <<>> THEN 0 ELSE Len(pre) + Len(l)
    <2> DEFINE k == Len(pre) + Len(l)
               to == Len(raw)
    <2>1. to \in Int /\ 1 \in Int /\ \A i \in 1 .. to : raw[i] = "@" => i =< k
      BY <1>5, <1>8, <1>9, <1>12
    <2>2. l = <<>> => \A i \in 1 .. to : raw[i] # "@"
      BY <1>1, <1>12, EmptyOrNot
    <2>3. l # <<>> => k \in 1 .. to /\ raw[k] = "@"
      BY <1>5, <1>8, <1>9
    <2> HIDE DEF to, k
    <2>4. l = <<>> => AtIn(raw, 1, to) = 0
      BY <2>2, NoAt
    <2>5. l # <<>> => AtIn(raw, 1, to) = k
      BY <2>1, <2>3, LastAt
    <2>. QED  BY <1>10, <2>4, <2>5 DEF k, to
  <1>. QED  BY <1>11, <1>13 DEF raw, c, b, hp, pre

\* The server once the credentials are cut out of the text.
LEMMA ServerLeft ==
  ASSUME client \in {"rust", "node", "python"},
         NEW s, NEW l, NEW h, NEW p, NEW r, AreParts(s, l, h, p, r), NEW lead \in Seq({"space"}),
         client = "python" => h # <<>>
  PROVE  NormalizeServer((lead \o s) \o ((h \o PortPart(p)) \o r)) = ServerFor(s, h, p, r)
  <1> DEFINE hp == h \o PortPart(p)
  <1>1. s \in Seq(T) /\ hp \in Seq(T) /\ r \in Seq(T) /\ hp \o r \in Seq(T) /\ <<>> \in Seq(T)
    BY PartsAreSeqs, Concat
  <1>2. AreParts(s, <<>>, h, p, r)
    <2>1. IsUserInfo(<<>>)
      BY <1>1 DEF IsUserInfo, Free
    <2>. QED  BY <2>1 DEF AreParts
  <1>3. lead \in Seq(T)
    <2>1. {"space"} \subseteq T
      BY DEF T, Marks
    <2>. QED  BY <2>1, SeqMonotonic
  <1>4. Whole(s, <<>>, h, p, r) = s \o (hp \o r)
    BY <1>1, ConcatEmptySeq DEF Whole
  <1>5. (lead \o s) \o (hp \o r) = lead \o (s \o (hp \o r))
    <2> DEFINE c == hp \o r
    <2>1. c \in Seq(T)
      BY <1>1
    <2> HIDE DEF c
    <2>2. (lead \o s) \o c = lead \o (s \o c)
      BY <1>1, <1>3, <2>1, ConcatAssociative
    <2>. QED  BY <2>2 DEF c
  <1>6. NormalizeServer(lead \o Whole(s, <<>>, h, p, r)) = ServerFor(s, h, p, r)
    BY <1>2, ServerIs
  <1>. QED  BY <1>4, <1>5, <1>6

\* The server is the same whether or not the credentials were in the text.
LEMMA ServerLeftAlone ==
  ASSUME client \in {"rust", "node", "python"},
         NEW s, NEW l, NEW h, NEW p, NEW r, AreParts(s, l, h, p, r),
         client = "python" => h # <<>>
  PROVE  NormalizeServer(s \o ((h \o PortPart(p)) \o r)) = ServerFor(s, h, p, r)
  <1> DEFINE none == <<>>
  <1>1. none \in Seq({"space"}) /\ none \o s = s
    BY PartsAreSeqs, ConcatEmptySeq
  <1> HIDE DEF none
  <1>2. ASSUME NEW lead \in Seq({"space"}), lead \o s = s
        PROVE  NormalizeServer(s \o ((h \o PortPart(p)) \o r)) = ServerFor(s, h, p, r)
    <2>1. NormalizeServer((lead \o s) \o ((h \o PortPart(p)) \o r)) = ServerFor(s, h, p, r)
      BY ServerLeft
    <2>. QED  BY <1>2, <2>1
  <1>. QED  BY <1>1, <1>2

\* A text with its credentials between what comes before and after them.
LEMMA TextIs ==
  ASSUME NEW s, NEW l, NEW h, NEW p, NEW r, AreParts(s, l, h, p, r), NEW lead \in Seq({"space"})
  PROVE  lead \o Whole(s, l, h, p, r) = (lead \o s) \o ((l \o (h \o PortPart(p))) \o r)
  <1> DEFINE c == (l \o (h \o PortPart(p))) \o r
  <1>1. s \in Seq(T) /\ c \in Seq(T)
    BY PartsAreSeqs
  <1>2. lead \in Seq(T)
    <2>1. {"space"} \subseteq T
      BY DEF T, Marks
    <2>. QED  BY <2>1, SeqMonotonic
  <1> HIDE DEF c
  <1>3. (lead \o s) \o c = lead \o (s \o c)
    BY <1>1, <1>2, ConcatThree
  <1>. QED  BY <1>3 DEF c, Whole

\* What the Python client needs of a text to find its credentials.
Plain(lead, s, h, r) ==
  /\ h # <<>> /\ "@" \notin ToSet(r)
  /\ s = <<>> => lead = <<>> /\ "://" \notin ToSet(r)

\* What every client parses out of a text that was put together.
LEMMA ParseTextIs ==
  ASSUME client \in {"rust", "node", "python"},
         NEW s, NEW l, NEW h, NEW p, NEW r, AreParts(s, l, h, p, r), NEW lead \in Seq({"space"}),
         client = "python" => Plain(lead, s, h, r)
  PROVE  ParsesTo(lead \o Whole(s, l, h, p, r), l, ServerFor(s, h, p, r))
  <1> DEFINE text == lead \o Whole(s, l, h, p, r)
             hp == h \o PortPart(p)
  <1>1. /\ s \in Seq(T) /\ l \in Seq(T) /\ hp \in Seq(T) /\ r \in Seq(T)
        /\ l \o hp \in Seq(T) /\ (l \o hp) \o r \in Seq(T)
    BY PartsAreSeqs
  <1>2. lead \in Seq(T) /\ lead \o s \in Seq(T)
    <2>1. {"space"} \subseteq T
      BY DEF T, Marks
    <2>2. lead \in Seq(T)
      BY <2>1, SeqMonotonic
    <2>. QED  BY <1>1, <2>2, Concat
  <1>3. CASE client \in {"rust", "node"}
    <2>1. PICK q : /\ Trimmed(q, r) /\ AreParts(s, l, h, p, q)
                   /\ Trim(text) = Whole(s, l, h, p, q)
      BY TrimWhole
    <2>2. q \in Seq(T)
      BY <2>1, PartsAreSeqs
    <2> DEFINE raw == s \o ((l \o hp) \o q)
    <2>3. /\ LoginStart(raw) = Len(s)
          /\ AtIn(raw, Len(s) + 1, LoginReach(raw)) = IF l = <<>> THEN 0 ELSE Len(s) + Len(l)
      BY <1>3, <2>1, FoundInAuthority DEF Whole
    <2>4. Found(text, raw, s, l)
      BY <1>3, <2>1, <2>3 DEF Whole, Found
    <2> HIDE DEF hp, text
    <2>6. ParsesTo(text, l, NormalizeServer(s \o (hp \o q)))
      BY <1>1, <2>2, <2>4, FoundLogin
    <2>7. NormalizeServer(s \o (hp \o q)) = ServerFor(s, h, p, q)
      <3>1. client = "python" => h # <<>>
        BY <1>3
      <3>. QED  BY <2>1, <3>1, ServerLeftAlone DEF hp
    <2>8. ServerFor(s, h, p, q) = ServerFor(s, h, p, r)
      BY <2>1 DEF ServerFor, Trimmed
    <2>. QED  BY <2>6, <2>7, <2>8 DEF text
  <1>4. CASE client = "python"
    <2> DEFINE pre == lead \o s
               raw == pre \o ((l \o hp) \o r)
    <2>1. /\ LoginStart(raw) = Len(pre)
          /\ AtIn(raw, 1, LoginReach(raw)) = IF l = <<>> THEN 0 ELSE Len(pre) + Len(l)
      BY <1>4, FoundInText DEF Plain
    <2>2. text = raw
      BY TextIs
    <2>3. NormalizeServer(pre \o (hp \o r)) = ServerFor(s, h, p, r)
      BY <1>4, ServerLeft DEF Plain
    <2>4. Found(text, raw, pre, l)
      BY <1>4, <2>1, <2>2 DEF Found
    <2> HIDE DEF hp, text, pre
    <2>5. pre \in Seq(T)
      BY <1>2 DEF pre
    <2>6. ParsesTo(text, l, NormalizeServer(pre \o (hp \o r)))
      BY <1>1, <2>4, <2>5, FoundLogin
    <2>. QED  BY <2>3, <2>6 DEF text
  <1>. QED  BY <1>3, <1>4

-----------------------------------------------------------------------------
(* The parts a caller writes *)

\* A username and a password are told apart at the first ":".
LEMMA LoginIs ==
  ASSUME NEW u \in Seq(T), Free(u, {":"})
  PROVE  /\ UserOf(u) = u /\ PasswordOf(u) = {}
         /\ \A w \in Seq(T) : LET m == u \o (<<":">> \o w)
                              IN UserOf(m) = u /\ PasswordOf(m) = {Decode(w)}
  <1>1. Colon(u) = 0 /\ \A w \in Seq(T) : Colon(u \o (<<":">> \o w)) = Len(u) + 1
    BY ColonIs DEF Colon
  <1>2. UserOf(u) = u /\ PasswordOf(u) = {}
    BY <1>1 DEF UserOf, PasswordOf
  <1>3. ASSUME NEW w \in Seq(T)
        PROVE  LET m == u \o (<<":">> \o w) IN UserOf(m) = u /\ PasswordOf(m) = {Decode(w)}
    <2> DEFINE mark == <<":">>
               m == u \o (mark \o w)
    <2>1. mark \in Seq(T) /\ Len(mark) = 1
      BY DEF T, Marks
    <2>2. Colon(m) = Len(u) + 1
      BY <1>1
    <2> HIDE DEF mark
    <2>3. mark \o w \in Seq(T) /\ u \o mark \in Seq(T) /\ Len(u \o mark) = Len(u) + Len(mark)
      BY <2>1, Concat
    <2>4. m = (u \o mark) \o w
      BY <2>1, ConcatThree
    <2>5. SubSeq(m, 1, Len(u)) = u
      BY <2>3, CutHead
    <2>6. From((u \o mark) \o w, Len(u \o mark) + 1) = w
      BY <2>3, CutTail
    <2>7. Len(u) \in Nat
      BY LenProperties
    <2> HIDE DEF m
    <2>8. Colon(m) # 0 /\ Colon(m) - 1 = Len(u) /\ Colon(m) + 1 = Len(u \o mark) + 1
      BY <2>1, <2>2, <2>3, <2>7
    <2>9. UserOf(m) = u
      BY <2>5, <2>8 DEF UserOf
    <2>10. PasswordOf(m) = {Decode(w)}
      BY <2>4, <2>6, <2>8 DEF PasswordOf
    <2>. QED  BY <2>9, <2>10 DEF m, mark
  <1>. QED  BY <1>2, <1>3

\* Decoding gives what the caller meant, where the escapes are of UTF-8.
LEMMA DecodeIs ==
  ASSUME NEW u \in Seq(T), "%FF" \notin ToSet(u)
  PROVE  Decode(u) = Meant(u)
  <1>1. DOMAIN u = 1 .. Len(u)
    BY LenProperties
  <1>2. \A i \in 1 .. Len(u) : u[i] # "%FF"
    BY <1>1 DEF ToSet
  <1>. QED  BY <1>1, <1>2 DEF Decode, Meant

\* Credentials that are escaped as in a URL are read as user info.
LEMMA MarkedIs ==
  ASSUME NEW m \in Seq(T), Free(m, Ends), m # <<>> => m[1] # "space"
  PROVE  IsUserInfo(Marked(m))
  <1> DEFINE mark == <<"@">>
             l == m \o mark
  <1>1. mark \in Seq(T) /\ Len(mark) = 1 /\ mark[1] = "@" /\ Free(mark, Ends)
    BY DEF T, Marks, Free, Ends
  <1> HIDE DEF mark
  <1>2. l \in Seq(T) /\ Free(l, Ends)
    BY <1>1, Concat, FreeConcat
  <1>3. /\ Len(m) \in Nat /\ Len(l) = Len(m) + Len(mark)
        /\ \A i \in 1 .. Len(m) : l[i] = m[i]
        /\ \A i \in 1 .. Len(mark) : l[Len(m) + i] = mark[i]
        /\ m = <<>> <=> Len(m) = 0
    BY <1>1, Concat, EmptyOrNot
  <1> HIDE DEF l
  <1>4. l[Len(m) + 1] = "@" /\ Len(l) = Len(m) + 1
    BY <1>1, <1>3
  <1>5. l[1] # "space"
    BY <1>1, <1>3, <1>4
  <1>. QED  BY <1>2, <1>4, <1>5 DEF IsUserInfo, Marked, l, mark

\* The credentials of a text are an optional username, then an optional password.
AreCredentials(login, u, m) ==
  /\ login.username = {u} /\ Free(u, {":"})
  /\ \/ login.password = {} /\ m = u
     \/ \E w \in Seq(T) : login.password = {w} /\ m = u \o (<<":">> \o w)

\* What a caller writes is made of tokens, and ToSet is the set of a text's tokens.
LEMMA StringsAreTokens ==
  /\ Seq(STRING) \subseteq Seq(T) /\ Seq({"space"}) \subseteq Seq(T)
  /\ \A s \in Seq(T) : \A M : ToSet(s) \cap M = {} <=> Free(s, M)
  <1>1. STRING \subseteq T /\ {"space"} \subseteq T
    BY DEF T, Marks
  <1>2. Seq(STRING) \subseteq Seq(T) /\ Seq({"space"}) \subseteq Seq(T)
    BY <1>1, SeqMonotonic
  <1>3. ASSUME NEW s \in Seq(T), NEW M PROVE ToSet(s) \cap M = {} <=> Free(s, M)
    <2>1. ToSet(s) = {s[i] : i \in 1 .. Len(s)}
      BY LenProperties DEF ToSet
    <2>. QED  BY <2>1 DEF Free
  <1>. QED  BY <1>2, <1>3

\* The credentials of a caller make user info, with its two halves in it.
LEMMA UserInfoIs ==
  ASSUME NEW login \in Login
  PROVE  /\ IsUserInfo(UserInfo(login))
         /\ login.username = {} => UserInfo(login) = <<>>
         /\ login.username # {} =>
              \E u, m \in Seq(T) : AreCredentials(login, u, m) /\ UserInfo(login) = Marked(m)
  <1>1. /\ login \in [username : SUBSET Seq(STRING), password : SUBSET Seq(STRING)]
        /\ \A u, v \in login.username : u = v
        /\ \A p, q \in login.password : p = q
        /\ \A u \in login.username : /\ ToSet(u) \cap {"/", "?", "://", ":"} = {}
                                     /\ u # <<>> => u[1] # "space"
        /\ \A p \in login.password : ToSet(p) \cap {"/", "?", "://"} = {}
    BY LoginAssumption
  <1>2. CASE login.username = {}
    <2>1. UserInfo(login) = <<>>
      BY <1>2 DEF UserInfo
    <2>2. IsUserInfo(<<>>)
      BY EmptySeq DEF IsUserInfo, Free
    <2>. QED  BY <1>2, <2>1, <2>2
  <1>3. CASE login.username # {}
    <2>0. PICK u \in login.username : TRUE
      BY <1>3
    <2>1. login.username = {u}
      BY <1>1
    <2>2. u \in Seq(T) /\ ToSet(u) \cap {"/", "?", "://", ":"} = {} /\ (u # <<>> => u[1] # "space")
      BY <1>1, <2>1, StringsAreTokens
    <2>3. Free(u, {"/", "?", "://", ":"})
      BY <2>2, StringsAreTokens
    <2>4. Free(u, Ends) /\ Free(u, {":"})
      BY <2>3 DEF Free, Ends
    <2>5. The(login.username) = u
      BY <2>1 DEF The
    <2>6. CASE login.password = {}
      <3>1. UserInfo(login) = (u \o <<>>) \o <<"@">>
        BY <1>3, <2>5, <2>6 DEF UserInfo
      <3>2. u \o <<>> = u
        BY <2>2, ConcatEmptySeq
      <3>3. UserInfo(login) = Marked(u)
        BY <3>1, <3>2 DEF Marked
      <3>4. IsUserInfo(Marked(u))
        BY <2>2, <2>4, MarkedIs
      <3>. QED  BY <1>3, <2>1, <2>2, <2>4, <2>6, <3>3, <3>4 DEF AreCredentials
    <2>7. CASE login.password # {}
      <3>0. PICK w \in login.password : TRUE
        BY <2>7
      <3>1. login.password = {w}
        BY <1>1
      <3>2. w \in Seq(T) /\ ToSet(w) \cap {"/", "?", "://"} = {}
        BY <1>1, <3>1, StringsAreTokens
      <3>3. Free(w, Ends)
        BY <3>2, StringsAreTokens DEF Ends
      <3>4. The(login.password) = w
        BY <3>1 DEF The
      <3> DEFINE colon == <<":">>
                 c == colon \o w
                 m == u \o c
      <3>5. UserInfo(login) = Marked(m)
        BY <1>3, <2>5, <2>7, <3>4 DEF UserInfo, Marked
      <3>6. colon \in Seq(T) /\ Len(colon) = 1 /\ colon[1] = ":" /\ Free(colon, Ends)
        BY DEF T, Marks, Free, Ends
      <3> HIDE DEF colon
      <3>7. /\ c \in Seq(T) /\ Free(c, Ends) /\ Len(c) = Len(colon) + Len(w) /\ Len(w) \in Nat
            /\ c[1] = colon[1]
        BY <3>2, <3>3, <3>6, Concat, FreeConcat
      <3> HIDE DEF c
      <3>8. m \in Seq(T) /\ Free(m, Ends)
        BY <2>2, <2>4, <3>7, Concat, FreeConcat
      <3>9. m[1] # "space"
        <4>1. CASE u = <<>>
          <5>1. m = c
            BY <3>7, <4>1, ConcatEmptySeq
          <5>. QED  BY <3>6, <3>7, <5>1
        <4>2. CASE u # <<>>
          <5>1. Len(u) > 0 /\ Len(u) \in Nat
            BY <2>2, <4>2, EmptyOrNot
          <5>2. m[1] = u[1]
            BY <2>2, <3>7, <5>1, Concat
          <5>. QED  BY <2>2, <4>2, <5>2
        <4>. QED  BY <4>1, <4>2
      <3> HIDE DEF m
      <3>10. IsUserInfo(Marked(m))
        BY <3>8, <3>9, MarkedIs
      <3>11. AreCredentials(login, u, m)
        BY <2>1, <2>4, <3>1, <3>2 DEF AreCredentials, m, c, colon
      <3>. QED  BY <1>3, <2>2, <3>5, <3>8, <3>10, <3>11
    <2>. QED  BY <2>6, <2>7
  <1>. QED  BY <1>2, <1>3

\* What is parsed out of a text, in terms of the credentials written in it.
LEMMA LoginParsed ==
  ASSUME client \in {"rust", "node", "python"}, NEW login \in Login, login.username # {},
         NEW text, NEW server, ParsesTo(text, UserInfo(login), server)
  PROVE  /\ Tokens(login) \cap Undecodable # {} => ParseText(text) = {}
         /\ Tokens(login) \cap Undecodable = {} /\ "%FF" \notin Tokens(login) =>
              ParseText(text) = Option(server, {Meant(u) : u \in login.username},
                                               {Meant(p) : p \in login.password})
  <1>1. PICK u \in Seq(T), m \in Seq(T) : AreCredentials(login, u, m) /\ UserInfo(login) = Marked(m)
    BY UserInfoIs
  <1>2. ParseText(text) = IF ToSet(m) \cap Undecodable # {} THEN {}
                          ELSE Option(server, {Decode(UserOf(m))}, PasswordOf(m))
    BY <1>1 DEF ParsesTo
  <1>3. ":" \notin Undecodable
    BY DEF Undecodable
  <1>4. CASE login.password = {} /\ m = u
    <2>1. Tokens(login) = ToSet(m) /\ login.username = {u}
      BY <1>1, <1>4 DEF AreCredentials, Tokens
    <2>2. UserOf(m) = u /\ PasswordOf(m) = {}
      BY <1>1, <1>4, LoginIs DEF AreCredentials
    <2>3. "%FF" \notin Tokens(login) => Decode(u) = Meant(u)
      BY <1>4, <2>1, DecodeIs
    <2>. QED  BY <1>2, <1>4, <2>1, <2>2, <2>3
  <1>5. ASSUME NEW w \in Seq(T), login.password = {w}, m = u \o (<<":">> \o w)
        PROVE  /\ Tokens(login) \cap Undecodable # {} => ParseText(text) = {}
               /\ Tokens(login) \cap Undecodable = {} /\ "%FF" \notin Tokens(login) =>
                    ParseText(text) = Option(server, {Meant(v) : v \in login.username},
                                                     {Meant(p) : p \in login.password})
    <2>1. login.username = {u} /\ Free(u, {":"})
      BY <1>1 DEF AreCredentials
    <2>2. Tokens(login) = ToSet(u) \cup ToSet(w)
      BY <1>5, <2>1 DEF Tokens
    <2>3. ToSet(m) \cap Undecodable = {} <=> Tokens(login) \cap Undecodable = {}
      <3> DEFINE colon == <<":">>
      <3>1. colon \in Seq(T) /\ Free(colon, Undecodable)
        BY <1>3 DEF T, Marks, Free
      <3> HIDE DEF colon
      <3>2. colon \o w \in Seq(T)
        BY <1>5, <3>1, Concat
      <3>3. Free(m, Undecodable) <=> Free(u, Undecodable) /\ Free(w, Undecodable)
        BY <1>5, <3>1, <3>2, FreeConcat DEF colon
      <3>4. ToSet(m) \cap Undecodable = {}
              <=> ToSet(u) \cap Undecodable = {} /\ ToSet(w) \cap Undecodable = {}
        BY <1>1, <1>5, <3>3, StringsAreTokens
      <3>. QED  BY <2>2, <3>4
    <2>4. UserOf(m) = u /\ PasswordOf(m) = {Decode(w)}
      BY <1>5, <2>1, LoginIs
    <2>5. "%FF" \notin Tokens(login) => Decode(u) = Meant(u) /\ Decode(w) = Meant(w)
      BY <1>5, <2>2, DecodeIs
    <2>. QED  BY <1>2, <1>5, <2>1, <2>3, <2>4, <2>5
  <1>. QED  BY <1>1, <1>4, <1>5 DEF AreCredentials

\* What a caller may have given.
Input == /\ client \in Clients
         /\ written \in Written
         /\ form \in IF client = "rust" THEN {"url", "fields"} ELSE {"url", "fields", "spec"}
         /\ given \in IF form = "url" THEN {NoLogin} ELSE Explicit

\* Something that is neither white space nor a scheme comes first.
Quoted == written.lead = <<"quote">>

\* A text a caller writes is put together of parts that can be read back.
LEMMA WrittenIs ==
  ASSUME written \in Written
  PROVE  /\ written.login \in Login
         /\ AreParts(written.scheme, UserInfo(written.login), written.host, written.port, written.rest)
         /\ Text(written) = written.lead \o Whole(written.scheme, UserInfo(written.login),
                                                  written.host, written.port, written.rest)
         /\ ~Quoted => written.lead \in Seq({"space"})
         /\ Quoted => written.scheme # <<>>
         /\ "bad" \in ToSet(written.port) <=> written.port = <<"bad">>
  <1>1. /\ written.lead \in Lead /\ written.scheme \in Scheme /\ written.login \in Login
        /\ written.host \in Host /\ written.port \in Port /\ written.rest \in Rest
        /\ Quoted => written.scheme # <<>>
    BY DEF Written, Quoted
  <1>2. ~Quoted => written.lead \in Seq({"space"})
    BY <1>1, LeadAssumption DEF Quoted
  <1>3. IsScheme(written.scheme)
    <2>1. written.scheme = <<>> \/ (written.scheme \in Seq(STRING) /\ Len(written.scheme) = 2
                                    /\ written.scheme[1] \notin Marks /\ written.scheme[2] = "://")
      BY <1>1, SchemeAssumption
    <2>2. <<>> \in Seq(T)
      BY EmptySeq
    <2>. QED  BY <2>1, <2>2, StringsAreTokens DEF IsScheme
  <1>4. IsHost(written.host)
    <2>1. written.host \in Seq(STRING) /\ ToSet(written.host) \cap Marks = {}
      BY <1>1, HostAssumption
    <2>. QED  BY <2>1, StringsAreTokens DEF IsHost
  <1>5. IsPort(written.port) /\ ("bad" \in ToSet(written.port) <=> written.port = <<"bad">>)
    <2>1. written.port \in Seq(STRING) /\ Len(written.port) < 2 /\ ToSet(written.port) \cap Marks = {}
      BY <1>1, PortAssumption
    <2>2. IsPort(written.port)
      BY <2>1, StringsAreTokens DEF IsPort
    <2>3. written.port = <<"bad">> => "bad" \in ToSet(written.port)
      BY DEF ToSet
    <2>4. ASSUME "bad" \in ToSet(written.port) PROVE written.port = <<"bad">>
      <3> DEFINE p == written.port
                 bad == <<"bad">>
      <3>1. p \in Seq(STRING) /\ Len(p) < 2 /\ Len(p) \in Nat /\ DOMAIN p = 1 .. Len(p)
        BY <2>1, LenProperties
      <3>2. \E i \in 1 .. Len(p) : p[i] = "bad"
        BY <2>4, <3>1 DEF ToSet
      <3> HIDE DEF p
      <3>3. Len(p) = 1 /\ p[1] = "bad"
        BY <3>1, <3>2
      <3>4. bad \in Seq(STRING) /\ Len(bad) = 1 /\ bad[1] = "bad"
        <4>1. "bad" \in STRING
          BY <3>1, <3>3, ElementOfSeq
        <4>. QED  BY <4>1
      <3> HIDE DEF bad
      <3>5. p = bad
        BY <3>1, <3>3, <3>4, SeqEqual
      <3>. QED  BY <3>5 DEF p, bad
    <2>. QED  BY <2>2, <2>3, <2>4
  <1>6. IsRest(written.rest)
    <2>1. written.rest \in Seq(STRING) /\ (written.rest # <<>> => written.rest[1] \in {"/", "?"})
      BY <1>1, RestAssumption
    <2>. QED  BY <2>1, StringsAreTokens DEF IsRest
  <1>7. IsUserInfo(UserInfo(written.login))
    BY <1>1, UserInfoIs
  <1>8. Text(written) = written.lead \o Whole(written.scheme, UserInfo(written.login),
                                              written.host, written.port, written.rest)
    BY DEF Text, Whole
  <1>. QED  BY <1>1, <1>2, <1>3, <1>4, <1>5, <1>6, <1>7, <1>8 DEF AreParts

\* The scheme of the server a caller means, and its port as it is sent.
TheScheme == SchemeOf(written.scheme)
SentPort == IF TheScheme \in Special /\ written.port = <<DefaultPort(TheScheme)>> THEN <<>>
            ELSE written.port

\* Reading a token twice is reading it once, and makes no mark.
LEMMA LowerIs ==
  /\ \A x : Lower(Lower(x)) = Lower(x)
  /\ \A x \in T : Lower(x) \in T /\ (x \notin Marks => Lower(x) \notin Marks)
  <1>1. "http" \in T /\ "gw" \in T /\ "http" \notin Marks /\ "gw" \notin Marks
    BY DEF T, Marks
  <1>. QED  BY <1>1 DEF Lower

\* The same of a host's tokens, and none is taken for one that no host has.
LEMMA HostTokenIs ==
  /\ \A x : HostToken(HostToken(x)) = HostToken(x)
  /\ \A x \in T : HostToken(x) \in T /\ (x \notin Marks => HostToken(x) \notin Marks)
  /\ \A x : HostToken(x) \in Forbidden <=> x \in Forbidden
  <1>1. "a" \in T /\ "xn--zca" \in T /\ "a" \notin Marks /\ "xn--zca" \notin Marks
    BY DEF T, Marks
  <1>2. \A x : HostToken(HostToken(x)) = HostToken(x)
    BY DEF HostToken, Lower
  <1>3. \A x : HostToken(x) \in Forbidden <=> x \in Forbidden
    BY DEF HostToken, Lower, Forbidden
  <1>4. \A x : HostToken(x) \in {"a", "xn--zca", Lower(x)}
    BY DEF HostToken
  <1>. QED  BY <1>1, <1>2, <1>3, <1>4, LowerIs

\* A host that a URL parser made is a host, and is left as it is.
LEMMA DomainIs ==
  ASSUME NEW h, IsHost(h)
  PROVE  /\ IsHost(Domain(h)) /\ Domain(Domain(h)) = Domain(h) /\ (Domain(h) = <<>> <=> h = <<>>)
         /\ ToSet(Domain(h)) \cap Forbidden = {} <=> ToSet(h) \cap Forbidden = {}
  <1>1. h \in Seq(T) /\ Free(h, Marks) /\ DOMAIN h = 1 .. Len(h) /\ Len(h) \in Nat
    BY LenProperties DEF IsHost
  <1>2. Domain(h) = [i \in 1 .. Len(h) |-> HostToken(h[i])]
    BY <1>1 DEF Domain
  <1>3. \A i \in 1 .. Len(h) : h[i] \in T /\ h[i] \notin Marks
    BY <1>1, ElementOfSeq DEF Free
  <1>4. \A i \in 1 .. Len(h) : HostToken(h[i]) \in T /\ HostToken(h[i]) \notin Marks
    BY <1>3, HostTokenIs
  <1>5. Domain(h) \in Seq(T) /\ Len(Domain(h)) = Len(h)
    BY <1>1, <1>2, <1>4, IsASeq, LenProperties
  <1>6. Free(Domain(h), Marks)
    BY <1>2, <1>4, <1>5 DEF Free
  <1>7. Domain(Domain(h)) = Domain(h)
    <2>1. DOMAIN Domain(h) = 1 .. Len(h)
      BY <1>2
    <2>2. \A i \in 1 .. Len(h) : HostToken(Domain(h)[i]) = HostToken(h[i])
      BY <1>2, HostTokenIs
    <2>3. Domain(Domain(h)) = [i \in 1 .. Len(h) |-> HostToken(Domain(h)[i])]
      BY <2>1 DEF Domain
    <2>. QED  BY <1>2, <2>2, <2>3
  <1>8. Domain(h) = <<>> <=> h = <<>>
    BY <1>1, <1>5, EmptyOrNot
  <1>9. ToSet(Domain(h)) \cap Forbidden = {} <=> ToSet(h) \cap Forbidden = {}
    <2>1. \A i \in 1 .. Len(h) : Domain(h)[i] \in Forbidden <=> h[i] \in Forbidden
      BY <1>2, HostTokenIs
    <2>2. Free(Domain(h), Forbidden) <=> Free(h, Forbidden)
      BY <1>5, <2>1 DEF Free
    <2>. QED  BY <1>1, <1>5, <2>2, StringsAreTokens
  <1>. QED  BY <1>5, <1>6, <1>7, <1>8, <1>9 DEF IsHost

\* A host that Python reads as any other client does.
PythonReads(h) == h # <<>> /\ "U+00DF" \notin ToSet(h) /\ ToSet(h) \cap Forbidden = {}

\* There the two make the same of it.
LEMMA PythonHostIs ==
  ASSUME NEW h, IsHost(h), PythonReads(h)
  PROVE  PythonHost(h) = Domain(h)
  <1> DEFINE read == Decode(h)
             ascii == ReplaceAll(read, "U+00DF", "ss")
  <1>1. \A i \in DOMAIN h : h[i] # "U+00DF" /\ h[i] \notin Forbidden
    BY DEF PythonReads, ToSet
  <1>2. DOMAIN read = DOMAIN h /\ \A i \in DOMAIN h : read[i] = Unescaped(h[i])
    BY <1>1 DEF Decode, Forbidden
  <1>3. \A i \in DOMAIN h : read[i] # "U+00DF" /\ read[i] # "U+FFFD"
    BY <1>1, <1>2 DEF Unescaped, Forbidden
  <1>4. "U+FFFD" \notin ToSet(read)
    BY <1>2, <1>3 DEF ToSet
  <1>5. \A i \in DOMAIN h : ascii[i] = read[i]
    BY <1>2, <1>3 DEF ReplaceAll
  <1>6. \A i \in DOMAIN h : Lower(Unescaped(h[i])) = HostToken(h[i])
    BY <1>1 DEF Lower, Unescaped, HostToken, Forbidden
  <1>7. PythonHost(h) = [i \in DOMAIN h |-> Lower(ascii[i])]
    BY <1>4 DEF PythonHost
  <1> HIDE DEF read, ascii
  <1>8. \A i \in DOMAIN h : Lower(ascii[i]) = HostToken(h[i])
    BY <1>2, <1>5, <1>6
  <1>. QED  BY <1>7, <1>8 DEF Domain

\* A rendered server begins with its scheme.
LEMMA RenderedIs ==
  ASSUME NEW scheme \in T, NEW h, IsHost(h), NEW p, IsPort(p)
  PROVE  Rendered(scheme, h, p)[1] = scheme
  <1> DEFINE sent == IF scheme \in Special /\ p = <<DefaultPort(scheme)>> THEN <<>> ELSE p
             s == <<scheme, "://">>
             hp == h \o PortPart(sent)
  <1>1. IsPort(sent)
    <2>1. IsPort(<<>>)
      BY EmptySeq DEF IsPort, Free
    <2>. QED  BY <2>1
  <1>2. hp \in Seq(T)
    BY <1>1, HostPort
  <1>3. s \in Seq(T) /\ Len(s) = 2 /\ s[1] = scheme
    BY DEF T, Marks
  <1>4. Rendered(scheme, h, p) = s \o hp
    BY DEF Rendered
  <1> HIDE DEF s, hp
  <1>5. (s \o hp)[1] = s[1]
    BY <1>2, <1>3, Concat
  <1>. QED  BY <1>3, <1>4, <1>5

\* The scheme a caller means is a token in lower case, and no mark.
LEMMA TheSchemeIs ==
  ASSUME written \in Written
  PROVE  TheScheme \in T /\ TheScheme \notin Marks /\ Lower(TheScheme) = TheScheme
  <1>1. IsScheme(written.scheme)
    BY WrittenIs DEF AreParts
  <1>2. CASE written.scheme = <<>>
    BY <1>2 DEF TheScheme, SchemeOf, Lower, T, Marks
  <1>3. CASE written.scheme # <<>>
    <2>1. written.scheme[1] \in T /\ written.scheme[1] \notin Marks
      <3>1. written.scheme \in Seq(T) /\ Len(written.scheme) = 2 /\ written.scheme[1] \notin Marks
        BY <1>1, <1>3 DEF IsScheme
      <3>. QED  BY <3>1, ElementOfSeq
    <2>2. TheScheme = Lower(written.scheme[1])
      BY <1>3 DEF TheScheme, SchemeOf
    <2>. QED  BY <2>1, <2>2, LowerIs
  <1>. QED  BY <1>2, <1>3

\* The server the caller means is read by every client and by Playwright as itself.
LEMMA CanonicalIs ==
  ASSUME written \in Written
  PROVE  /\ Canonical = Rendered(TheScheme, Domain(written.host), written.port)
         /\ SchemePrefixLen(Canonical) = 2 /\ Canonical[1] = TheScheme
         /\ Trim(Canonical) = Canonical
         /\ Whatwg(Canonical) = IF \/ written.host = <<>> \/ written.port = <<"bad">>
                                   \/ IsForbidden(TheScheme, written.host)
                                THEN {} ELSE {Canonical}
  <1> DEFINE s == <<TheScheme, "://">>
             h == Domain(written.host)
             p == SentPort
  <1>1. /\ IsHost(written.host) /\ IsPort(written.port)
        /\ "bad" \in ToSet(written.port) <=> written.port = <<"bad">>
    BY WrittenIs DEF AreParts
  <1>2. TheScheme \in T /\ TheScheme \notin Marks /\ Lower(TheScheme) = TheScheme
    BY TheSchemeIs
  <1>3. /\ IsHost(h) /\ Domain(h) = h /\ (h = <<>> <=> written.host = <<>>)
        /\ IsForbidden(TheScheme, h) <=> IsForbidden(TheScheme, written.host)
    BY <1>1, DomainIs DEF IsForbidden
  <1>4. IsPort(p) /\ ("bad" \in ToSet(p) <=> written.port = <<"bad">>)
    <2>1. IsPort(<<>>) /\ "bad" \notin ToSet(<<>>)
      BY EmptySeq DEF IsPort, Free, ToSet
    <2>2. <<DefaultPort(TheScheme)>> # <<"bad">>
      BY DEF DefaultPort
    <2>. QED  BY <1>1, <2>1, <2>2 DEF SentPort
  <1>5. Canonical = Rendered(TheScheme, h, written.port)
    BY DEF Canonical, TheScheme, SchemeOf
  <1>6. Rendered(TheScheme, h, p) = Rendered(TheScheme, h, written.port)
    BY DEF Rendered, SentPort
  <1>7. /\ s \in Seq(T) /\ s # <<>> /\ Len(s) = 2 /\ s[1] = TheScheme /\ s[2] = "://"
    BY <1>2 DEF T, Marks
  <1>8. <<>> \in Seq(T) /\ IsUserInfo(<<>>) /\ IsRest(<<>>)
    BY EmptySeq DEF IsUserInfo, IsRest, Free
  <1>9. AreParts(s, <<>>, h, p, <<>>)
    BY <1>2, <1>3, <1>4, <1>7, <1>8 DEF AreParts, IsScheme
  <1>10. Canonical = Whole(s, <<>>, h, p, <<>>)
    <2> DEFINE hp == h \o PortPart(p)
    <2>1. hp \in Seq(T)
      BY <1>9, PartsAreSeqs
    <2>2. (<<>> \o hp) \o <<>> = hp
      BY <2>1, ConcatEmptySeq
    <2>3. Canonical = s \o hp
      BY <1>5 DEF Rendered, SentPort
    <2>. QED  BY <2>2, <2>3 DEF Whole
  <1>11. SchemePrefixLen(Canonical) = 2
    BY <1>7, <1>9, <1>10, PrefixIs
  <1>12. Canonical[1] = TheScheme
    BY <1>1, <1>2, <1>3, <1>5, RenderedIs
  <1>13. Trim(Canonical) = Canonical
    BY <1>9, <1>10, TrimAgain
  <1>14. Whatwg(Canonical) = ServerOf(s, h, p)
    BY <1>7, <1>9, <1>10, WhatwgIs
  <1>15. SchemeOf(s) = TheScheme /\ HostIn(TheScheme, h) = h
    BY <1>2, <1>3, <1>7 DEF SchemeOf, HostIn
  <1>16. ServerOf(s, h, p) = IF h = <<>> \/ IsForbidden(TheScheme, h) \/ "bad" \in ToSet(p) THEN {}
                             ELSE {Rendered(TheScheme, h, p)}
    BY <1>15 DEF ServerOf
  <1> HIDE DEF s, h, p
  <1>17. Whatwg(Canonical) = IF \/ written.host = <<>> \/ written.port = <<"bad">>
                                \/ IsForbidden(TheScheme, written.host)
                             THEN {} ELSE {Canonical}
    BY <1>3, <1>4, <1>5, <1>6, <1>14, <1>16
  <1>. QED  BY <1>5, <1>11, <1>12, <1>13, <1>17 DEF h

-----------------------------------------------------------------------------
(* What is parsed is what was meant *)

\* The ProxySpec the caller meant.
AsMeant == [server |-> Canonical, username |-> Credentials.username, password |-> Credentials.password]

\* A ProxySpec that passes the check is the one that was meant, of a proxy
\* that can be registered; and every such proxy passes it.
Sound(s) == /\ CheckRegistrable(s) => Registrable /\ s = AsMeant
            /\ Registrable => CheckRegistrable(s)

\* The same of what parsing returned, if anything.
Outcome(option) == /\ option = {} => ~Registrable
                   /\ option # {} => Sound(The(option))

\* An HTTP proxy that a server can be made of.
Fit == /\ TheScheme \in Special
       /\ written.host # <<>> /\ ToSet(written.host) \cap Forbidden = {} /\ written.port # <<"bad">>
       /\ client = "rust" /\ written.scheme = <<>> => "://" \notin ToSet(written.rest)

\* Everything there is to the proxy but the credentials, and its length.
Proxylike == /\ ~Quoted /\ Fit
             /\ Embedded => "%FF" \notin Tokens(written.login)
Short == client = "rust" => (Tokens(Credentials) \cup ToSet(Canonical)) \cap TooLong = {}

\* A proxy to register is a server and who is to use it.
LEMMA RegistrableIs == Registrable <=> Proxylike /\ Authenticated(Credentials) /\ Short
  BY DEF Registrable, RustAccepts, Proxylike, Fit, Short, Quoted, TheScheme, SchemeOf, Special

\* The ProxySpec that was meant passes the check exactly if it should.
LEMMA SoundAsMeant ==
  ASSUME written \in Written, Proxylike
  PROVE  Sound(AsMeant)
  <1>1. /\ AsMeant.server = Canonical
        /\ AsMeant.username = Credentials.username /\ AsMeant.password = Credentials.password
    BY DEF AsMeant
  <1>2. Authenticated(AsMeant) <=> Authenticated(Credentials)
    BY <1>1 DEF Authenticated
  <1>3. SchemePrefixLen(Canonical) > 0 /\ Lower(Canonical[1]) \in Special
    BY CanonicalIs, TheSchemeIs DEF Proxylike, Fit
  <1>4. Short <=> (client = "rust" =>
                     \A text \in {Canonical} \cup Credentials.username \cup Credentials.password :
                       ToSet(text) \cap TooLong = {})
    BY DEF Short, Tokens
  <1>. QED  BY <1>1, <1>2, <1>3, <1>4, RegistrableIs DEF Sound, CheckRegistrable

\* A server that is no HTTP proxy is refused, and should be.
LEMMA SoundUnfit ==
  ASSUME written \in Written, NEW s, s.server[1] = TheScheme, TheScheme \notin Special
  PROVE  Sound(s)
  BY TheSchemeIs, RegistrableIs DEF Sound, CheckRegistrable, Proxylike, Fit

\* There is a ProxySpec if there is a server, and it is of that server.
LEMMA OptionIs ==
  ASSUME NEW server, NEW username, NEW password
  PROVE  /\ Option({}, username, password) = {}
         /\ Option({server}, username, password) # {}
         /\ The(Option({server}, username, password))
              = [server |-> server, username |-> username, password |-> password]
  BY DEF Option, The

\* Without a username nothing is registered.
LEMMA NobodyOutcome ==
  ASSUME ~Registrable, NEW server, NEW password
  PROVE  Outcome(Option(server, {}, password)) /\ Outcome({})
  <1> DEFINE option == Option(server, {}, password)
  <1>1. Outcome({})
    BY DEF Outcome
  <1>2. ASSUME option # {} PROVE Sound(The(option))
    <2>1. The(option) \in option
      BY <1>2 DEF The
    <2>2. The(option).username = {}
      <3>1. \A x \in option : x.username = {}
        BY DEF Option
      <3> HIDE DEF option
      <3>. QED  BY <2>1, <3>1
    <2> HIDE DEF option
    <2>3. ~CheckRegistrable(The(option))
      BY <2>2 DEF CheckRegistrable, Authenticated
    <2>. QED  BY <2>3 DEF Sound
  <1>. QED  BY <1>1, <1>2 DEF Outcome

\* A client gets the server that was meant, or none that can be registered.
LEMMA ServerForIs ==
  ASSUME client \in {"rust", "node", "python"}, written \in Written,
         client = "python" => PythonReads(written.host)
  PROVE  LET server == ServerFor(written.scheme, written.host, written.port, written.rest)
         IN \/ server = {} /\ ~Fit
            \/ server = {Canonical} /\ Fit
            \/ \E x : server = {x} /\ x[1] = TheScheme /\ TheScheme \notin Special
  <1> DEFINE s == written.scheme
             h == written.host
             p == written.port
             r == written.rest
  <1>1. IsHost(h) /\ IsPort(p) /\ ("bad" \in ToSet(p) <=> p = <<"bad">>)
    BY WrittenIs DEF AreParts
  <1>2. TheScheme \in T /\ TheScheme = SchemeOf(s)
    BY TheSchemeIs DEF TheScheme
  <1>3. Canonical = Rendered(TheScheme, Domain(h), p)
    BY CanonicalIs
  <1>4. /\ Rendered(TheScheme, h, p)[1] = TheScheme
        /\ Rendered(TheScheme, Domain(h), p)[1] = TheScheme
    BY <1>1, <1>2, RenderedIs, DomainIs
  <1>5. ServerOf(s, h, p) = IF h = <<>> \/ IsForbidden(TheScheme, h) \/ p = <<"bad">> THEN {}
                            ELSE {Rendered(TheScheme, HostIn(TheScheme, h), p)}
    BY <1>1, <1>2 DEF ServerOf
  <1>6. HostIn(TheScheme, h) = IF TheScheme \in Special THEN Domain(h) ELSE h
    BY DEF HostIn
  <1>7. Fit <=> /\ TheScheme \in Special
                /\ h # <<>> /\ ~IsForbidden(TheScheme, h) /\ p # <<"bad">>
                /\ client = "rust" /\ s = <<>> => "://" \notin ToSet(r)
    BY DEF Fit, IsForbidden
  <1>8. CASE client = "python"
    <2>1. PythonHost(h) = Domain(h) /\ h # <<>> /\ ToSet(h) \cap Forbidden = {}
      BY <1>1, <1>8, PythonHostIs DEF PythonReads
    <2>2. ~IsForbidden(TheScheme, h)
      BY <2>1 DEF IsForbidden
    <2> HIDE DEF s, h, p, r
    <2>3. ServerFor(s, h, p, r) = IF p = <<"bad">> THEN {} ELSE {Canonical}
      BY <1>1, <1>2, <1>3, <1>8, <2>1 DEF ServerFor
    <2>. QED  BY <1>3, <1>4, <1>7, <1>8, <2>1, <2>2, <2>3 DEF s, h, p, r
  <1> HIDE DEF s, h, p, r
  <1>9. CASE client \in {"rust", "node"}
    <2>1. CASE client = "rust" /\ s = <<>> /\ "://" \in ToSet(r)
      <3>1. ServerFor(s, h, p, r) = {}
        BY <2>1 DEF ServerFor
      <3>. QED  BY <1>7, <2>1, <3>1 DEF s, h, p, r
    <2>2. CASE ~(client = "rust" /\ s = <<>> /\ "://" \in ToSet(r))
      <3>1. ServerFor(s, h, p, r) = ServerOf(s, h, p)
        BY <1>9, <2>2 DEF ServerFor
      <3>. QED  BY <1>3, <1>4, <1>5, <1>6, <1>7, <2>2, <3>1 DEF s, h, p, r, IsForbidden
    <2>. QED  BY <2>1, <2>2
  <1>. QED  BY <1>8, <1>9

\* The server that was written with the credentials that were meant.
LEMMA ServerOutcome ==
  ASSUME client \in {"rust", "node", "python"}, written \in Written, ~Quoted,
         client = "python" => PythonReads(written.host),
         Embedded => "%FF" \notin Tokens(written.login)
  PROVE  Outcome(Option(ServerFor(written.scheme, written.host, written.port, written.rest),
                        Credentials.username, Credentials.password))
  <1> DEFINE server == ServerFor(written.scheme, written.host, written.port, written.rest)
             option == Option(server, Credentials.username, Credentials.password)
  <1>1. CASE server = {} /\ ~Fit
    <2>1. option = {}
      BY <1>1, OptionIs
    <2>2. ~Registrable
      BY <1>1, RegistrableIs DEF Proxylike
    <2>. QED  BY <2>1, <2>2 DEF Outcome
  <1>2. CASE server = {Canonical} /\ Fit
    <2>1. option # {} /\ The(option) = AsMeant
      BY <1>2, OptionIs DEF AsMeant
    <2>2. Proxylike
      BY <1>2 DEF Proxylike
    <2>. QED  BY <2>1, <2>2, SoundAsMeant DEF Outcome
  <1>3. ASSUME NEW x, server = {x}, x[1] = TheScheme, TheScheme \notin Special
        PROVE  Outcome(option)
    <2>1. option # {} /\ The(option).server = x
      <3>1. /\ Option({x}, Credentials.username, Credentials.password) # {}
            /\ The(Option({x}, Credentials.username, Credentials.password))
                 = [server |-> x, username |-> Credentials.username, password |-> Credentials.password]
        BY OptionIs
      <3>2. The(Option({x}, Credentials.username, Credentials.password)).server = x
        BY <3>1
      <3>. QED  BY <1>3, <3>1, <3>2
    <2> HIDE DEF option
    <2>2. Sound(The(option))
      BY <1>3, <2>1, SoundUnfit
    <2>. QED  BY <2>1, <2>2 DEF Outcome
  <1>. QED  BY <1>1, <1>2, <1>3, ServerForIs

\* An "@" is found in a text with credentials.
LEMMA AtInText ==
  ASSUME written \in Written, ~Quoted, written.login.username # {}
  PROVE  "@" \in ToSet(Text(written))
  <1> DEFINE l == UserInfo(written.login)
             hp == written.host \o PortPart(written.port)
             r == written.rest
             s == written.scheme
  <1>1. /\ s \in Seq(T) /\ l \in Seq(T) /\ hp \in Seq(T) /\ r \in Seq(T)
        /\ l \o hp \in Seq(T) /\ (l \o hp) \o r \in Seq(T)
    BY WrittenIs, PartsAreSeqs
  <1>2. written.lead \in Seq(T)
    BY WrittenIs, StringsAreTokens
  <1>3. ~Free(l, {"@"})
    <2>1. PICK m \in Seq(T) : l = Marked(m)
      BY WrittenIs, UserInfoIs
    <2>2. <<"@">> \in Seq(T) /\ ~Free(<<"@">>, {"@"})
      BY DEF T, Marks, Free
    <2>. QED  BY <2>1, <2>2, FreeConcat DEF Marked
  <1>4. ~Free((l \o hp) \o r, {"@"})
    BY <1>1, <1>3, FreeConcat
  <1>5. Text(written) = written.lead \o (s \o ((l \o hp) \o r))
    BY WrittenIs DEF Whole
  <1> DEFINE c == (l \o hp) \o r
  <1>6. c \in Seq(T) /\ ~Free(c, {"@"}) /\ Text(written) = written.lead \o (s \o c)
    BY <1>1, <1>4, <1>5
  <1> HIDE DEF c, s
  <1>7. ~Free(s \o c, {"@"}) /\ s \o c \in Seq(T)
    BY <1>1, <1>6, FreeConcat, Concat
  <1>8. ~Free(written.lead \o (s \o c), {"@"}) /\ written.lead \o (s \o c) \in Seq(T)
    BY <1>2, <1>7, FreeConcat, Concat
  <1>9. ToSet(Text(written)) \cap {"@"} # {}
    BY <1>6, <1>8, StringsAreTokens
  <1>. QED  BY <1>9

\* Behind anything but white space, Rust finds neither a scheme nor credentials.
LEMMA QuotedIs ==
  ASSUME client = "rust", written \in Written, Quoted
  PROVE  /\ NormalizeServer(Text(written)) = {}
         /\ \E server : ParseText(Text(written)) = Option(server, {}, {})
  <1> DEFINE s == written.scheme
             l == UserInfo(written.login)
             hp == written.host \o PortPart(written.port)
             r == written.rest
             quote == <<"quote">>
             b == l \o hp
             x == quote \o s
             a == x \o b
  <1>1. /\ s \in Seq(T) /\ l \in Seq(T) /\ hp \in Seq(T) /\ r \in Seq(T)
        /\ b \in Seq(T) /\ b \o r \in Seq(T) /\ <<>> \in Seq({"space"})
        /\ IsScheme(s) /\ IsRest(r)
    BY WrittenIs, PartsAreSeqs DEF AreParts
  <1>2. s # <<>> /\ Len(s) = 2 /\ s[1] \notin Marks /\ s[2] = "://"
    BY <1>1, WrittenIs DEF IsScheme
  <1>3. quote \in Seq(T) /\ Len(quote) = 1 /\ quote[1] = "quote"
    BY DEF T, Marks
  <1>4. Text(written) = quote \o (s \o (b \o r))
    BY WrittenIs DEF Quoted, Whole
  <1>5. Solid(s \o b) /\ s \o b \in Seq(T)
    BY <1>1, WrittenIs, PartsAreSolid, Concat
  <1> HIDE DEF s, quote, b, r
  <1>6. x \in Seq(T) /\ Len(x) = 3 /\ x[1] = "quote" /\ x[2] = s[1] /\ x[3] = "://"
    <2>1. /\ x \in Seq(T) /\ Len(x) = Len(quote) + Len(s)
          /\ \A i \in 1 .. Len(quote) : x[i] = quote[i]
          /\ \A i \in 1 .. Len(s) : x[Len(quote) + i] = s[i]
      BY <1>1, <1>3, Concat
    <2> HIDE DEF x
    <2>2. x[1 + 1] = s[1] /\ x[1 + 2] = s[2]
      BY <1>2, <1>3, <2>1
    <2>. QED  BY <1>2, <1>3, <2>1, <2>2
  <1>7. a \in Seq(T) /\ Solid(a)
    <2>1. Solid(quote)
      BY <1>3 DEF Solid
    <2>2. Solid(quote \o (s \o b))
      BY <1>3, <1>5, <2>1, SolidConcat
    <2>3. a = quote \o (s \o b)
      BY <1>1, <1>3, ConcatThree
    <2>. QED  BY <1>1, <1>6, <2>2, <2>3, Concat
  <1>8. Text(written) = a \o r
    <2>1. s \o (b \o r) = (s \o b) \o r
      BY <1>1, ConcatThree
    <2>2. quote \o ((s \o b) \o r) = (quote \o (s \o b)) \o r
      BY <1>1, <1>3, <1>5, ConcatThree
    <2>3. a = quote \o (s \o b)
      BY <1>1, <1>3, ConcatThree
    <2>. QED  BY <1>4, <2>1, <2>2, <2>3
  <1> HIDE DEF x
  <1>9. PICK q : Trimmed(q, r) /\ Trim(Text(written)) = a \o q
    <2> DEFINE none == <<>>
    <2>1. none \in Seq({"space"}) /\ none \o (a \o r) = a \o r /\ a \o r \in Seq(T)
      <3>1. a \o r \in Seq(T)
        BY <1>1, <1>7, Concat
      <3>. QED  BY <1>1, <3>1, ConcatEmptySeq
    <2> HIDE DEF none, a
    <2>2. ASSUME NEW lead \in Seq({"space"}), lead \o (a \o r) = a \o r
          PROVE  \E q : Trimmed(q, r) /\ Trim(a \o r) = a \o q
      <3>1. \E q : Trimmed(q, r) /\ Trim(lead \o (a \o r)) = a \o q
        <4>1. a \in Seq(T) /\ Solid(a) /\ IsRest(r)
          BY <1>1, <1>7
        <4>. QED  BY <4>1, TrimIs
      <3>. QED  BY <2>2, <3>1
    <2>3. \E q : Trimmed(q, r) /\ Trim(a \o r) = a \o q
      BY <2>1, <2>2
    <2>. QED  BY <1>8, <2>3
  <1> DEFINE c == b \o q
             raw == x \o c
  <1>10. q \in Seq(T) /\ c \in Seq(T) /\ Trim(Text(written)) = raw
    <2>1. q \in Seq(T)
      BY <1>9 DEF Trimmed, IsRest
    <2>2. (x \o b) \o q = x \o (b \o q)
      <3>1. x \in Seq(T) /\ b \in Seq(T)
        BY <1>1, <1>6
      <3>. QED  BY <2>1, <3>1, ConcatThree
    <2>. QED  BY <1>1, <1>9, <2>1, <2>2, Concat
  <1> HIDE DEF c, a
  <1>11. /\ raw \in Seq(T) /\ Len(raw) \in Nat /\ Len(raw) >= 3
         /\ raw[1] = "quote" /\ raw[2] = s[1] /\ raw[3] = "://"
    <2>1. /\ raw \in Seq(T) /\ Len(raw) = Len(x) + Len(c) /\ Len(c) \in Nat
          /\ \A i \in 1 .. Len(x) : raw[i] = x[i]
      BY <1>6, <1>10, Concat
    <2> HIDE DEF raw
    <2>. QED  BY <1>6, <2>1
  <1> HIDE DEF raw
  <1>12. SchemePrefixLen(raw) = 0
    BY <1>11 DEF SchemePrefixLen, Marks
  <1>13. Contains(raw, "://")
    BY <1>11 DEF Contains
  <1>14. NormalizeServer(Text(written)) = {}
    BY <1>10, <1>12, <1>13 DEF NormalizeServer, NormalizeRust
  <1>15. From(raw, 1) = raw
    BY <1>11, SeqEqual DEF From
  <1>16. Authority(raw) = SubSeq(raw, 1, 2)
    <2> DEFINE I == {i \in 1 .. Len(raw) : raw[i] \in {"/", "?", "://"}}
    <2>1. Authority(raw) = IF I = {} THEN raw ELSE IF Min(I) = 0 THEN raw ELSE SubSeq(raw, 1, Min(I) - 1)
      BY DEF Authority, SelectInSeq
    <2>2. 3 \in I /\ I \in SUBSET Int
      BY <1>11
    <2>3. \A i \in I : 3 =< i
      BY <1>2, <1>11 DEF Marks
    <2>4. Min(I) = 3
      BY <2>2, <2>3, MinIs
    <2>5. I # {}
      BY <2>2
    <2> HIDE DEF I
    <2>. QED  BY <2>1, <2>4, <2>5
  <1>17. LoginStart(raw) = 0 /\ LoginReach(raw) = 2
    <2>1. LoginStart(raw) = 0
      BY <1>12 DEF LoginStart
    <2>2. Len(SubSeq(raw, 1, 2)) = 2
      BY <1>11
    <2>. QED  BY <1>15, <1>16, <2>1, <2>2 DEF LoginReach
  <1>18. AtIn(raw, 1, 2) = 0
    <2>1. \A i \in 1 .. 2 : raw[i] # "@"
      BY <1>2, <1>11 DEF Marks
    <2>. QED  BY <2>1, NoAt
  <1>19. ParseText(Text(written)) = Option(NormalizeServer(raw), {}, {})
    BY <1>10, <1>17, <1>18 DEF ParseText, AtIn
  <1>. QED  BY <1>14, <1>19

\* Both halves of an empty text are empty.
LEMMA NothingIs ==
  ASSUME NEW a \in Seq(T), NEW b \in Seq(T), a \o b = <<>>
  PROVE  a = <<>> /\ b = <<>>
  BY ConcatEqualIffEmpty

\* A text is not empty if its host is not.
LEMMA TextNotEmpty ==
  ASSUME written \in Written, ~Quoted, Text(written) = <<>>
  PROVE  written.host = <<>>
  <1> DEFINE w == Whole(written.scheme, UserInfo(written.login), written.host, written.port, written.rest)
             b == (UserInfo(written.login) \o (written.host \o PortPart(written.port))) \o written.rest
  <1>1. /\ AreParts(written.scheme, UserInfo(written.login), written.host, written.port, written.rest)
        /\ written.lead \in Seq({"space"}) /\ Text(written) = written.lead \o w
    BY WrittenIs
  <1>2. written.scheme \in Seq(T) /\ b \in Seq(T) /\ w \in Seq(T) /\ written.lead \in Seq(T)
    BY <1>1, PartsAreSeqs, StringsAreTokens
  <1>3. w = written.scheme \o b
    BY DEF Whole
  <1> HIDE DEF b, w
  <1>4. w = <<>>
    <2>1. written.lead \o w = <<>> /\ written.lead \in Seq(T) /\ w \in Seq(T)
      BY <1>1, <1>2
    <2>. QED  BY <2>1, NothingIs
  <1>5. written.scheme = <<>>
    <2>1. written.scheme \o b = <<>> /\ written.scheme \in Seq(T) /\ b \in Seq(T)
      BY <1>2, <1>3, <1>4
    <2>. QED  BY <2>1, NothingIs
  <1>. QED  BY <1>1, <1>4, <1>5, NoScheme DEF w

\* A text that says who: the server and the credentials in it.
LEMMA TextOutcome ==
  ASSUME Input, ~Recorded, ~Quoted, Embedded
  PROVE  Outcome(ParseText(Text(written)))
  <1> DEFINE login == written.login
             server == ServerFor(written.scheme, written.host, written.port, written.rest)
  <1>1. /\ client \in {"rust", "node", "python"} /\ written \in Written /\ login \in Login
    BY ClientsAssumption, WrittenIs DEF Input
  <1>2. client = "python" => /\ Plain(written.lead, written.scheme, written.host, written.rest)
                             /\ PythonReads(written.host) /\ "%FF" \notin Tokens(login)
    BY DEF Recorded, Plain, PythonReads
  <1>3. ParsesTo(Text(written), UserInfo(login), server)
    BY <1>1, <1>2, WrittenIs, ParseTextIs
  <1>4. Credentials = [username |-> {Meant(u) : u \in login.username},
                       password |-> {Meant(p) : p \in login.password}]
    BY DEF Credentials
  <1>5. CASE login.username = {}
    <2>1. ParseText(Text(written)) = Option(server, {}, {})
      BY <1>1, <1>3, <1>5, UserInfoIs DEF ParsesTo
    <2>2. ~Registrable
      BY <1>4, <1>5, RegistrableIs DEF Authenticated
    <2>. QED  BY <2>1, <2>2, NobodyOutcome
  <1>6. CASE login.username # {}
    <2>1. /\ Tokens(login) \cap Undecodable # {} => ParseText(Text(written)) = {}
          /\ Tokens(login) \cap Undecodable = {} /\ "%FF" \notin Tokens(login) =>
               ParseText(Text(written)) = Option(server, Credentials.username, Credentials.password)
      BY <1>1, <1>3, <1>4, <1>6, LoginParsed
    <2>2. CASE Tokens(login) \cap Undecodable # {}
      <3>1. ~Registrable
        BY <1>1, <2>2 DEF Undecodable, Registrable, Recorded
      <3>. QED  BY <2>1, <2>2, <3>1, NobodyOutcome
    <2>3. CASE Tokens(login) \cap Undecodable = {}
      <3>1. "%FF" \notin Tokens(login)
        BY <1>1, <1>2, <2>3 DEF Undecodable
      <3>2. Outcome(Option(server, Credentials.username, Credentials.password))
        BY <1>1, <1>2, <3>1, ServerOutcome
      <3>. QED  BY <2>1, <2>3, <3>1, <3>2
    <2>. QED  BY <2>2, <2>3
  <1>. QED  BY <1>5, <1>6

\* A server and the credentials beside it.
LEMMA FieldsOutcome ==
  ASSUME Input, ~Quoted, ~Embedded, client = "python" => PythonReads(written.host)
  PROVE  Outcome(Option(NormalizeServer(Text(written)), given.username, given.password))
  <1> DEFINE server == ServerFor(written.scheme, written.host, written.port, written.rest)
  <1>1. client \in {"rust", "node", "python"} /\ written \in Written
    BY ClientsAssumption DEF Input
  <1>2. NormalizeServer(Text(written)) = server
    <2>1. /\ AreParts(written.scheme, UserInfo(written.login), written.host, written.port, written.rest)
          /\ written.lead \in Seq({"space"})
          /\ Text(written) = written.lead \o Whole(written.scheme, UserInfo(written.login),
                                                   written.host, written.port, written.rest)
      BY <1>1, WrittenIs
    <2>2. client = "python" => written.host # <<>>
      BY DEF PythonReads
    <2>. QED  BY <1>1, <2>1, <2>2, ServerIs
  <1>3. Credentials = given
    BY DEF Credentials
  <1>4. Outcome(Option(server, Credentials.username, Credentials.password))
    BY <1>1, ServerOutcome
  <1>. QED  BY <1>2, <1>3, <1>4

\* A ProxySpec is believed in Node, and right if it is the rendering of its server.
LEMMA SpecOutcome ==
  ASSUME Input, ~Recorded, client = "node", form = "spec"
  PROVE  Outcome(Option({Text(written)}, given.username, given.password))
  <1> DEFINE option == Option({Text(written)}, given.username, given.password)
  <1>1. written \in Written /\ ~Embedded /\ ~Quoted
    BY DEF Input, Embedded, Recorded, Quoted
  <1>2. {Text(written)} = Whatwg(Canonical)
    BY DEF Recorded
  <1>3. /\ Text(written) = Canonical /\ written.host # <<>> /\ written.port # <<"bad">>
        /\ ~IsForbidden(TheScheme, written.host)
    BY <1>1, <1>2, CanonicalIs
  <1>4. Credentials = given
    BY <1>1 DEF Credentials
  <1>5. option # {} /\ The(option) = AsMeant
    BY <1>3, <1>4, OptionIs DEF AsMeant
  <1>6. CASE TheScheme \in Special
    <2>1. Proxylike
      BY <1>1, <1>3, <1>6 DEF Proxylike, Fit, IsForbidden
    <2>. QED  BY <1>1, <1>5, <2>1, SoundAsMeant DEF Outcome
  <1>7. CASE TheScheme \notin Special
    <2>1. AsMeant.server[1] = TheScheme
      BY <1>1, CanonicalIs DEF AsMeant
    <2>2. Sound(AsMeant)
      BY <1>1, <1>7, <2>1, SoundUnfit
    <2>. QED  BY <1>5, <2>2 DEF Outcome
  <1>. QED  BY <1>6, <1>7

\* But for the answers that are recorded, what is parsed is what was meant: in every
\* form, and with every spelling of the server.  (parse_proxy of the three clients)
LEMMA ParsedIs ==
  ASSUME Input, ~Recorded
  PROVE  Outcome(Parsed)
  <1> DEFINE text == Text(written)
  <1>1. client \in {"rust", "node", "python"} /\ written \in Written
    BY ClientsAssumption DEF Input
  <1>2. CASE Quoted
    <2>1. client = "rust" /\ ~Registrable
      BY <1>1, <1>2, RegistrableIs DEF Recorded, Quoted, Proxylike
    <2>2. form \in {"url", "fields"}
      BY <2>1 DEF Input
    <2>3. Outcome(ParseText(text)) /\ Outcome({})
      BY <1>1, <1>2, <2>1, QuotedIs, NobodyOutcome
    <2>4. Option(NormalizeServer(text), given.username, given.password) = {}
      BY <1>1, <1>2, <2>1, QuotedIs, OptionIs
    <2>. QED  BY <2>1, <2>2, <2>3, <2>4 DEF Parsed, ParseFields
  <1>3. CASE ~Quoted /\ form = "url"
    BY <1>3, TextOutcome DEF Parsed, Embedded
  <1>4. CASE ~Quoted /\ form = "fields"
    <2>1. /\ given \in [username : SUBSET Seq(STRING), password : SUBSET Seq(STRING)]
          /\ Parsed = ParseFields(text, given.username, given.password)
      BY <1>4, ExplicitAssumption DEF Input, Parsed
    <2>2. CASE given = NoLogin
      <3>1. given.username = {} /\ given.password = {} /\ Embedded
        BY <1>4, <2>2 DEF NoLogin, Embedded
      <3>2. CASE client = "node"
        <4>1. Parsed = Option(NormalizeServer(text), {}, {})
          BY <1>4, <2>1, <3>1, <3>2 DEF ParseFields
        <4>2. written.login = NoLogin
          BY <1>4, <3>1, <3>2 DEF Recorded
        <4>3. Credentials.username = {}
          BY <3>1, <4>2 DEF Credentials, NoLogin
        <4>4. ~Registrable
          BY <4>3, RegistrableIs DEF Authenticated
        <4>. QED  BY <4>1, <4>4, NobodyOutcome
      <3>3. CASE client # "node" /\ "@" \in ToSet(text)
        <4>1. Parsed = ParseText(text)
          BY <2>1, <3>1, <3>3 DEF ParseFields
        <4>. QED  BY <1>4, <3>1, <4>1, TextOutcome
      <3>4. CASE client # "node" /\ "@" \notin ToSet(text)
        <4>1. written.login.username = {}
          BY <1>1, <1>4, <3>4, AtInText
        <4>2. Credentials.username = {}
          BY <3>1, <4>1 DEF Credentials
        <4>3. ~Registrable
          BY <4>2, RegistrableIs DEF Authenticated
        <4>4. Parsed = {} \/ Parsed = Option(NormalizeServer(text), {}, {})
          BY <2>1, <3>1, <3>4 DEF ParseFields
        <4>. QED  BY <4>3, <4>4, NobodyOutcome
      <3>. QED  BY <3>2, <3>3, <3>4
    <2>3. CASE given # NoLogin
      <3>1. ~Embedded /\ ~(given.username = {} /\ given.password = {})
        BY <1>4, <2>1, <2>3 DEF Embedded, NoLogin
      <3>2. client = "python" => PythonReads(written.host)
        BY DEF Recorded, PythonReads
      <3>3. client = "python" => text # <<>>
        BY <1>1, <1>4, <3>2, TextNotEmpty DEF PythonReads
      <3>4. Parsed = Option(NormalizeServer(text), given.username, given.password)
        BY <2>1, <3>1, <3>3 DEF ParseFields
      <3>. QED  BY <1>4, <3>1, <3>2, <3>4, FieldsOutcome
    <2>. QED  BY <2>2, <2>3
  <1>5. CASE ~Quoted /\ form = "spec"
    <2>1. client \in {"node", "python"} /\ ~Embedded
      BY <1>1, <1>5 DEF Input, Embedded
    <2>2. CASE client = "node"
      <3>1. Parsed = Option({text}, given.username, given.password)
        BY <1>5, <2>2 DEF Parsed, ParseSpec
      <3>. QED  BY <1>5, <2>2, <3>1, SpecOutcome
    <2>3. CASE client = "python"
      <3>1. Parsed = Option(NormalizeServer(text), given.username, given.password)
        BY <1>5, <2>3 DEF Parsed, ParseSpec
      <3>2. PythonReads(written.host)
        BY <2>3 DEF Recorded, PythonReads
      <3>. QED  BY <1>5, <2>1, <3>1, <3>2, FieldsOutcome
    <2>. QED  BY <2>1, <2>2, <2>3
  <1>6. form \in {"url", "fields", "spec"}
    BY DEF Input
  <1>. QED  BY <1>2, <1>3, <1>4, <1>5, <1>6

-----------------------------------------------------------------------------
(* The inductive invariant *)

\* AsWritten says nothing of a spec that is parsed and not yet checked, and
\* SameBytes nothing of what is registered; IInv ties them to what was meant.
IInv ==
  /\ Input
  /\ step \in {"given", "parsed", "refused", "registered", "created"}
  /\ ~Recorded =>
       /\ step = "refused" => ~Registrable
       /\ step = "parsed" => Sound(The(spec))
       /\ step \in {"registered", "created"} =>
            Registrable /\ The(spec) = AsMeant /\ registered = {CredentialsParams(AsMeant)}
       /\ step = "created" => created = {Canonical}

\* What was meant does not change while the input does not.
LEMMA SameInput ==
  ASSUME UNCHANGED input
  PROVE  /\ client' = client
         /\ Input' <=> Input
         /\ Recorded' <=> Recorded
         /\ Registrable' <=> Registrable
         /\ Canonical' = Canonical /\ AsMeant' = AsMeant
  <1>1. client' = client /\ written' = written /\ form' = form /\ given' = given
    BY DEF input
  <1>2. Canonical' = Canonical
    BY <1>1 DEF Canonical
  <1>3. (Embedded' <=> Embedded) /\ Credentials' = Credentials
    BY <1>1 DEF Embedded, Credentials
  <1>4. Input' <=> Input
    BY <1>1 DEF Input
  <1>5. Recorded' <=> Recorded
    BY <1>1, <1>2, <1>3 DEF Recorded
  <1>6. Registrable' <=> Registrable
    BY <1>1, <1>2, <1>3 DEF Registrable, RustAccepts
  <1>7. AsMeant' = AsMeant
    BY <1>2, <1>3 DEF AsMeant
  <1>. QED  BY <1>1, <1>2, <1>4, <1>5, <1>6, <1>7

\* A driver that passes the server on and Playwright send the same bytes.
LEMMA DriversAgree ==
  ASSUME Input, Registrable
  PROVE  Playwright(Canonical) = {Canonical}
  <1>1. written \in Written /\ Proxylike
    BY RegistrableIs DEF Input
  <1>2. SchemePrefixLen(Trim(Canonical)) > 0 /\ Whatwg(Trim(Canonical)) = {Canonical}
    BY <1>1, CanonicalIs DEF Proxylike, Fit, IsForbidden
  <1>. QED  BY <1>2 DEF Playwright

\* Nothing is parsed, registered or created yet.
LEMMA InitInvariant == Init => IInv
  BY DEF Init, IInv, Input

\* Every step of a client, and stuttering, keeps the inductive invariant.
LEMMA NextInvariant ==
  ASSUME IInv, [Next]_vars
  PROVE  IInv'
  <1>0. UNCHANGED input
    BY DEF Next, vars, ParseProxy, Refuse, Register, CreateContext
  <1>1. /\ client' = client
        /\ Input' <=> Input
        /\ Recorded' <=> Recorded
        /\ Registrable' <=> Registrable
        /\ Canonical' = Canonical /\ AsMeant' = AsMeant
    BY <1>0, SameInput
  <1>2. Input'
    BY <1>1 DEF IInv
  <1>3. CASE ParseProxy
    <2>1. step' \in {"parsed", "refused"} /\ spec' = Parsed /\ (step' = "refused" <=> spec' = {})
      BY <1>3 DEF ParseProxy
    <2>2. CASE Recorded
      BY <1>1, <1>2, <2>1, <2>2 DEF IInv
    <2>3. CASE ~Recorded
      <3>1. Outcome(Parsed)
        BY <2>3, ParsedIs DEF IInv
      <3>2. step' = "refused" => ~Registrable'
        BY <1>1, <2>1, <3>1 DEF Outcome
      <3>3. step' = "parsed" => Sound(The(spec))'
        <4>1. step' = "parsed" => Sound(The(Parsed))
          BY <2>1, <3>1 DEF Outcome
        <4>2. The(spec)' = The(Parsed)
          BY <2>1 DEF The
        <4>. QED  BY <1>1, <4>1, <4>2 DEF Sound, CheckRegistrable
      <3>. QED  BY <1>2, <2>1, <3>2, <3>3 DEF IInv
    <2>. QED  BY <2>2, <2>3
  <1>4. CASE Refuse
    <2>1. step = "parsed" /\ step' = "refused" /\ ~CheckRegistrable(The(spec))
      BY <1>4 DEF Refuse
    <2>2. ~Recorded => ~Registrable
      BY <2>1 DEF IInv, Sound
    <2>. QED  BY <1>1, <1>2, <2>1, <2>2 DEF IInv
  <1>5. CASE Register
    <2>1. /\ step = "parsed" /\ step' = "registered" /\ CheckRegistrable(The(spec))
          /\ registered' = {CredentialsParams(The(spec))} /\ spec' = spec
      BY <1>5 DEF Register
    <2>2. ~Recorded => Registrable /\ The(spec) = AsMeant
      BY <2>1 DEF IInv, Sound
    <2>3. The(spec)' = The(spec)
      BY <2>1 DEF The
    <2>4. CredentialsParams(AsMeant)' = CredentialsParams(AsMeant)
      BY <1>1 DEF CredentialsParams
    <2>. QED  BY <1>1, <1>2, <2>1, <2>2, <2>3, <2>4 DEF IInv
  <1>6. CASE CreateContext
    <2>1. /\ step = "registered" /\ step' = "created" /\ spec' = spec /\ registered' = registered
          /\ created' \in {{The(spec).server}, Playwright(The(spec).server)}
      BY <1>6 DEF CreateContext
    <2>2. ~Recorded => /\ Registrable /\ The(spec) = AsMeant
                       /\ registered = {CredentialsParams(AsMeant)}
      BY <2>1 DEF IInv
    <2>3. ~Recorded => created' = {Canonical}
      <3>1. AsMeant.server = Canonical
        BY DEF AsMeant
      <3>. QED  BY <2>1, <2>2, <3>1, DriversAgree DEF IInv
    <2>4. The(spec)' = The(spec)
      BY <2>1 DEF The
    <2>5. CredentialsParams(AsMeant)' = CredentialsParams(AsMeant)
      BY <1>1 DEF CredentialsParams
    <2>. QED  BY <1>1, <1>2, <2>1, <2>2, <2>3, <2>4, <2>5 DEF IInv
  <1>7. CASE UNCHANGED vars
    <2>1. step' = step /\ spec' = spec /\ registered' = registered /\ created' = created
      BY <1>7 DEF vars
    <2>2. The(spec)' = The(spec)
      BY <2>1 DEF The
    <2>3. CredentialsParams(AsMeant)' = CredentialsParams(AsMeant)
      BY <1>1 DEF CredentialsParams
    <2>4. Sound(The(spec))' <=> Sound(The(spec))
      BY <1>1, <2>2 DEF Sound, CheckRegistrable
    <2>. QED  BY <1>1, <1>2, <2>1, <2>2, <2>3, <2>4 DEF IInv
  <1>. QED  BY <1>3, <1>4, <1>5, <1>6, <1>7 DEF Next

\* The inductive invariant holds from the text a caller writes to the context.
THEOREM Invariant == Spec => []IInv
  <1>1. Init => IInv
    BY InitInvariant
  <1>2. IInv /\ [Next]_vars => IInv'
    BY NextInvariant
  <1>. QED  BY <1>1, <1>2, PTL DEF Spec

\* But for the answers that are recorded, what the invariant says is both properties.
LEMMA InvariantSays == IInv /\ ~Recorded => AsWritten /\ SameBytes
  <1>1. CredentialsParams(AsMeant) = [proxyServer |-> Canonical, username |-> Credentials.username,
                                      password |-> Credentials.password]
    BY DEF CredentialsParams, AsMeant
  <1>2. CredentialsParams(AsMeant).proxyServer = Canonical
    BY DEF CredentialsParams, AsMeant
  <1>. QED  BY <1>1, <1>2 DEF IInv, AsWritten, SameBytes

\* RULINGS.md and the two causes beside it are all there is: no client is wrong about
\* any other text, of any length, in any form.  (parse_proxy and check_registrable of
\* the three clients)
THEOREM Conformance == Spec => []Conforms
  <1>1. IInv => Conforms
    BY InvariantSays DEF Conforms
  <1>. QED  BY <1>1, Invariant, PTL

\* Nothing is recorded of Rust.
LEMMA RustIsRight ==
  ASSUME Clients \subseteq {"rust"}
  PROVE  IInv => AsWritten /\ SameBytes
  BY InvariantSays DEF IInv, Input, Recorded

\* The Rust client registers a proxy exactly if it is one, for the server and with the
\* credentials the caller wrote, however the text is put together.  (parse_proxy and
\* check_registrable of core.rs)
THEOREM WrittenCorrect ==
  ASSUME Clients \subseteq {"rust"}
  PROVE  Spec => []AsWritten
  <1>1. IInv => AsWritten
    BY RustIsRight
  <1>. QED  BY <1>1, Invariant, PTL

\* For the Rust client the context is created for the very bytes that were registered:
\* Playwright's rewriting is the identity on every server it registers.
\* (normalize_server of core.rs)
THEOREM BytesCorrect ==
  ASSUME Clients \subseteq {"rust"}
  PROVE  Spec => []SameBytes
  <1>1. IInv => SameBytes
    BY RustIsRight
  <1>. QED  BY <1>1, Invariant, PTL
=============================================================================
