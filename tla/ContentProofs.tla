---------------------------- MODULE ContentProofs ----------------------------
(***************************************************************************)
(* Proofs about what the adapters make of an input in one step: the headers *)
(* of the sinks and the rules of the sources, for any configuration, event, *)
(* body and order of the maps; and what of an event is kept on its way from *)
(* a source to a sink, for any event, repository and image.                 *)
(***************************************************************************)
EXTENDS Adapters, SequenceTheorems, FiniteSetTheorems, WellFoundedInduction, TLAPS

LEMMA SetInduction ==
    ASSUME NEW S, 0 \in S, \A n \in Nat : n \in S => n + 1 \in S
    PROVE  Nat \subseteq S
  <1> DEFINE T == Nat \ S
             R == OpToRel(<, Nat)
  <1>1. IsWellFoundedOn(R, Nat)
    BY NatLessThanWellFounded
  <1>2. \A x, y \in Nat : y < x => <<y, x>> \in R
    BY DEF OpToRel
  <1> HIDE DEF R
  <1> SUFFICES ASSUME T # {} PROVE FALSE
    OBVIOUS
  <1>3. PICK x \in T : \A y \in T : ~(<<y, x>> \in R)
    BY <1>1, WFMin
  <1>4. x \in Nat /\ x \notin S /\ x # 0
    OBVIOUS
  <1>5. x - 1 \in Nat /\ x - 1 < x
    BY <1>4
  <1>6. x - 1 \in S
    BY <1>2, <1>3, <1>4, <1>5
  <1>7. (x - 1) + 1 \in S
    BY <1>5, <1>6
  <1>8. QED
    BY <1>4, <1>7

UpTo(f, n, config, headers) ==
    f = [i \in 0..n |-> IF i = 0 THEN <<>>
                        ELSE f[i - 1] \o Header!Piece(headers, config.signed[i], config.separator)]

LEMMA UpToExists ==
    ASSUME NEW n \in Nat, NEW config, NEW headers
    PROVE  \E f : UpTo(f, n, config, headers)
  <1> DEFINE piece(i) == Header!Piece(headers, config.signed[i], config.separator)
             IsUpTo(f, m) == f = [i \in 0..m |-> IF i = 0 THEN <<>> ELSE f[i - 1] \o piece(i)]
             S == {m \in Nat : \E f : IsUpTo(f, m)}
  <1> HIDE DEF piece, IsUpTo
  <1>1. 0 \in S
    <2>1. IsUpTo([i \in 0..0 |-> <<>>], 0)
      BY DEF IsUpTo
    <2>2. QED
      BY <2>1
  <1>2. ASSUME NEW m \in Nat, m \in S PROVE m + 1 \in S
    <2>1. PICK f : IsUpTo(f, m)
      BY <1>2
    <2> DEFINE g == [i \in 0..(m + 1) |-> IF i = m + 1 THEN f[m] \o piece(i) ELSE f[i]]
    <2>2. \A i \in 0..m : g[i] = f[i] /\ f[i] = IF i = 0 THEN <<>> ELSE f[i - 1] \o piece(i)
      <3>1. \A i \in 0..m : i \in 0..(m + 1) /\ i # m + 1
        OBVIOUS
      <3>2. \A i \in 0..m : f[i] = IF i = 0 THEN <<>> ELSE f[i - 1] \o piece(i)
        BY <2>1 DEF IsUpTo
      <3>3. QED
        BY <3>1, <3>2
    <2>3. g[m + 1] = g[m] \o piece(m + 1)
      <3>1. m + 1 \in 0..(m + 1) /\ m \in 0..m
        OBVIOUS
      <3>2. g[m + 1] = f[m] \o piece(m + 1)
        BY <3>1
      <3>3. g[m] = f[m]
        BY <2>2, <3>1
      <3>4. QED
        BY <3>2, <3>3
    <2>7. g = [i \in 0..(m + 1) |-> g[i]]
      OBVIOUS
    <2> HIDE DEF g
    <2>4. \A i \in 0..(m + 1) : g[i] = IF i = 0 THEN <<>> ELSE g[i - 1] \o piece(i)
      <3> TAKE i \in 0..(m + 1)
      <3>1. CASE i = m + 1
        <4>1. i # 0 /\ i - 1 = m
          BY <3>1
        <4>2. QED
          BY <2>3, <3>1, <4>1
      <3>2. CASE i = 0
        BY <2>2, <3>2
      <3>3. CASE i # 0 /\ i # m + 1
        <4>1. i \in 0..m /\ i - 1 \in 0..m
          BY <3>3
        <4>2. QED
          BY <2>2, <3>3, <4>1
      <3>4. QED
        BY <3>1, <3>2, <3>3
    <2>5. IsUpTo(g, m + 1)
      BY <2>4, <2>7 DEF IsUpTo
    <2>6. m + 1 \in Nat /\ \E h : IsUpTo(h, m + 1)
      BY <2>5
    <2>8. QED
      BY <2>6
  <1>3. n \in S
    BY <1>1, <1>2, SetInduction
  <1>4. PICK f : IsUpTo(f, n)
    BY <1>3
  <1>5. UpTo(f, n, config, headers)
    BY <1>4 DEF UpTo, piece, IsUpTo
  <1>6. QED
    BY <1>5

LEMMA PayloadUpTo ==
    ASSUME NEW config, NEW headers, NEW body, config.signatureOn # "body",
           Len(config.signed) \in Nat
    PROVE  \E f : /\ UpTo(f, Len(config.signed), config, headers)
                  /\ Header!Payload(config, headers, body) = f[Len(config.signed)] \o body
  <1>1. \E f : UpTo(f, Len(config.signed), config, headers)
    BY UpToExists
  <1> DEFINE f == CHOOSE f : UpTo(f, Len(config.signed), config, headers)
  <1>2. UpTo(f, Len(config.signed), config, headers)
    BY <1>1
  <1>3. Header!Payload(config, headers, body) = f[Len(config.signed)] \o body
    BY Zenon DEF Header!Payload, UpTo
  <1>4. QED
    BY <1>2, <1>3

\* A text is as long as its parts, and has their tokens.
LEMMA Joined ==
    ASSUME NEW a, NEW b, Header!IsText(a), Header!IsText(b)
    PROVE  /\ Header!IsText(a \o b) /\ Len(a) \in Nat /\ Len(b) \in Nat
           /\ Len(a \o b) = Len(a) + Len(b)
           /\ \A i \in 1..Len(a) : (a \o b)[i] = a[i]
           /\ \A i \in 1..Len(b) : (a \o b)[Len(a) + i] = b[i]
  <1> DEFINE T == Header!Range(a) \cup Header!Range(b)
  <1>1. a \in Seq(T) /\ b \in Seq(T)
    <2>1. a \in Seq(Header!Range(a)) /\ b \in Seq(Header!Range(b))
      BY DEF Header!IsText
    <2> HIDE DEF T
    <2>2. Header!Range(a) \subseteq T /\ Header!Range(b) \subseteq T
      BY DEF T
    <2>3. QED
      BY <2>1, <2>2
  <1> HIDE DEF T
  <1>2. /\ a \o b \in Seq(T) /\ Len(a) \in Nat /\ Len(b) \in Nat /\ Len(a \o b) = Len(a) + Len(b)
        /\ \A i \in 1..Len(a) : (a \o b)[i] = a[i]
        /\ \A i \in 1..Len(b) : (a \o b)[Len(a) + i] = b[i]
    BY <1>1
  <1>3. Header!IsText(a \o b)
    <2> DEFINE c == a \o b
    <2> HIDE DEF c
    <2>1. c \in Seq(T)
      BY <1>2 DEF c
    <2>2. c \in Seq(Header!Range(c))
      BY <2>1 DEF Header!Range
    <2>3. QED
      BY <2>2 DEF c, Header!IsText
  <1>4. QED
    BY <1>2, <1>3

LEMMA EmptyText == Header!IsText(<<>>) /\ Len(<<>>) = 0
  BY DEF Header!IsText

LEMMA OneToken == ASSUME NEW m PROVE Header!IsText(<<m>>) /\ Len(<<m>>) = 1 /\ <<m>>[1] = m
  <1>1. Header!Range(<<m>>) = {m}
    BY DEF Header!Range
  <1>2. QED
    BY <1>1 DEF Header!IsText

LEMMA PiecesText ==
    ASSUME NEW headers, NEW g, NEW separator, Header!IsText(separator),
           g \in DOMAIN headers => Header!IsText(headers[g])
    PROVE  Header!IsText(Header!Piece(headers, g, separator))
  BY Joined, EmptyText DEF Header!Piece

\* Two texts of different lengths differ; texts differ if what they end with is the
\* same and what they begin with has different lengths.
LEMMA Longer ==
    ASSUME NEW a, NEW b, Header!IsText(a), Header!IsText(b)
    PROVE  /\ b = <<>> <=> Len(b) = 0
           /\ b # <<>> => Len(a) < Len(a \o b) /\ a # a \o b
  <1>1. b = <<>> <=> Len(b) = 0
    BY DEF Header!IsText
  <1>2. Len(a) \in Nat /\ Len(b) \in Nat /\ Len(a \o b) = Len(a) + Len(b)
    BY Joined
  <1>3. QED
    BY <1>1, <1>2

SamePieces(config, carried, arrived) ==
    \A g \in Header!Range(config.signed) :
        Header!Piece(carried, g, config.separator) = Header!Piece(arrived, g, config.separator)

SomePieces(config, carried, arrived) ==
    \A g \in Header!Range(config.signed) :
        \/ Header!Piece(carried, g, config.separator) = Header!Piece(arrived, g, config.separator)
        \/ Header!Piece(carried, g, config.separator) = <<>>

LEMMA PayloadsCompared ==
    ASSUME NEW config, NEW carried, NEW arrived, NEW body,
           Header!IsText(config.signed), Header!IsText(config.separator), Header!IsText(body),
           Header!AllText(carried), Header!AllText(arrived), SomePieces(config, carried, arrived)
    PROVE  Header!Payload(config, carried, body) = Header!Payload(config, arrived, body)
             <=> config.signatureOn = "body" \/ SamePieces(config, carried, arrived)
  <1>1. CASE config.signatureOn = "body"
    BY <1>1 DEF Header!Payload
  <1>2. CASE config.signatureOn # "body"
    <2> DEFINE n == Len(config.signed)
               s(i) == Header!Piece(carried, config.signed[i], config.separator)
               r(i) == Header!Piece(arrived, config.signed[i], config.separator)
    <2>0. n \in Nat /\ Header!Range(config.signed) = {config.signed[i] : i \in 1..n}
      <3>1. config.signed \in Seq(Header!Range(config.signed))
        BY DEF Header!IsText
      <3>2. n \in Nat /\ DOMAIN config.signed = 1..n
        BY <3>1
      <3> HIDE DEF n
      <3>3. QED
        BY <3>2 DEF Header!Range
    <2>1. PICK f : /\ UpTo(f, n, config, carried)
                   /\ Header!Payload(config, carried, body) = f[n] \o body
      BY <1>2, <2>0, PayloadUpTo
    <2>2. PICK g : /\ UpTo(g, n, config, arrived)
                   /\ Header!Payload(config, arrived, body) = g[n] \o body
      BY <1>2, <2>0, PayloadUpTo
    <2>3. \A i \in 1..n : Header!IsText(s(i)) /\ Header!IsText(r(i)) /\ (s(i) = r(i) \/ s(i) = <<>>)
      <3> TAKE i \in 1..n
      <3>1. config.signed[i] \in Header!Range(config.signed)
        BY <2>0
      <3>2. Header!IsText(s(i)) /\ Header!IsText(r(i))
        BY PiecesText DEF Header!AllText
      <3>3. QED
        BY <3>1, <3>2 DEF SomePieces
    <2> HIDE DEF n, s, r
    <2>4. /\ f[0] = <<>> /\ g[0] = <<>>
          /\ \A i \in 1..n : f[i] = f[i - 1] \o s(i) /\ g[i] = g[i - 1] \o r(i)
      <3>1. /\ \A i \in 0..n : f[i] = IF i = 0 THEN <<>> ELSE f[i - 1] \o s(i)
            /\ \A i \in 0..n : g[i] = IF i = 0 THEN <<>> ELSE g[i - 1] \o r(i)
        BY <2>1, <2>2 DEF UpTo, s, r
      <3>2. 0 \in 0..n /\ \A i \in 1..n : i \in 0..n /\ i # 0
        BY <2>0
      <3>3. QED
        BY <3>1, <3>2
    <2> DEFINE Same(i) == \A j \in 1..i : s(j) = r(j)
               Holds(i) == /\ Header!IsText(f[i]) /\ Header!IsText(g[i]) /\ Len(f[i]) <= Len(g[i])
                           /\ Same(i) => f[i] = g[i]
                           /\ ~Same(i) => Len(f[i]) < Len(g[i])
               S == {i \in Nat : i <= n => Holds(i)}
    <2>5. 0 \in S
      BY <2>4, EmptyText
    <2>6. ASSUME NEW i \in Nat, i \in S PROVE i + 1 \in S
      <3> SUFFICES ASSUME i + 1 <= n PROVE Holds(i + 1)
        OBVIOUS
      <3>1. i + 1 \in 1..n /\ (i + 1) - 1 = i
        BY <2>0
      <3>2. Holds(i)
        BY <2>6, <3>1, <2>0
      <3>3. f[i + 1] = f[i] \o s(i + 1) /\ g[i + 1] = g[i] \o r(i + 1)
        BY <2>4, <3>1
      <3>4. /\ Header!IsText(s(i + 1)) /\ Header!IsText(r(i + 1))
            /\ s(i + 1) = r(i + 1) \/ s(i + 1) = <<>>
        BY <2>3, <3>1
      <3>5. /\ Header!IsText(f[i + 1]) /\ Len(f[i + 1]) = Len(f[i]) + Len(s(i + 1))
            /\ Header!IsText(g[i + 1]) /\ Len(g[i + 1]) = Len(g[i]) + Len(r(i + 1))
            /\ Len(f[i]) \in Nat /\ Len(g[i]) \in Nat
            /\ Len(s(i + 1)) \in Nat /\ Len(r(i + 1)) \in Nat
        BY <3>2, <3>3, <3>4, Joined
      <3>6. Same(i + 1) <=> Same(i) /\ s(i + 1) = r(i + 1)
        <4>1. \A j \in 1..(i + 1) : j \in 1..i \/ j = i + 1
          OBVIOUS
        <4>2. (1..i) \subseteq 1..(i + 1) /\ i + 1 \in 1..(i + 1)
          OBVIOUS
        <4>3. QED
          BY <4>1, <4>2
      <3>7. s(i + 1) # r(i + 1) => Len(s(i + 1)) = 0 /\ Len(r(i + 1)) > 0
        <4>1. r(i + 1) # <<>> => Len(r(i + 1)) # 0
          BY <3>4, Longer
        <4>2. QED
          BY <3>4, <3>5, <4>1, EmptyText
      <3> HIDE DEF Same
      <3>8. Same(i + 1) => f[i + 1] = g[i + 1]
        BY <3>2, <3>3, <3>6
      <3>9. Len(f[i + 1]) <= Len(g[i + 1]) /\ (~Same(i + 1) => Len(f[i + 1]) < Len(g[i + 1]))
        <4> DEFINE lf == Len(f[i])
                   lg == Len(g[i])
                   ls == Len(s(i + 1))
                   lr == Len(r(i + 1))
                   mf == Len(f[i + 1])
                   mg == Len(g[i + 1])
        <4>1. /\ lf \in Nat /\ lg \in Nat /\ ls \in Nat /\ lr \in Nat
              /\ mf = lf + ls /\ mg = lg + lr /\ lf <= lg
              /\ ~Same(i) => lf < lg
              /\ s(i + 1) = r(i + 1) => ls = lr
              /\ s(i + 1) # r(i + 1) => ls = 0 /\ lr > 0
          BY <3>2, <3>5, <3>7
        <4> HIDE DEF lf, lg, ls, lr, mf, mg
        <4>2. mf <= mg /\ (~Same(i + 1) => mf < mg)
          BY <4>1, <3>6
        <4>3. QED
          BY <4>2 DEF mf, mg
      <3>10. QED
        BY <3>5, <3>8, <3>9
    <2>7. n \in S
      BY <2>0, <2>5, <2>6, SetInduction
    <2>8. Holds(n)
      BY <2>0, <2>7
    <2>9. /\ Len(f[n] \o body) = Len(f[n]) + Len(body) /\ Len(g[n] \o body) = Len(g[n]) + Len(body)
          /\ Len(body) \in Nat /\ Len(f[n]) \in Nat /\ Len(g[n]) \in Nat
      BY <2>8, Joined
    <2>10. f[n] \o body = g[n] \o body <=> Same(n)
      <3>1. Same(n) => f[n] \o body = g[n] \o body
        BY <2>8
      <3>2. ASSUME ~Same(n) PROVE f[n] \o body # g[n] \o body
        <4> DEFINE lf == Len(f[n])
                   lg == Len(g[n])
                   lb == Len(body)
        <4>1. lf \in Nat /\ lg \in Nat /\ lb \in Nat /\ lf < lg
          BY <2>8, <2>9, <3>2
        <4>2. Len(f[n] \o body) = lf + lb /\ Len(g[n] \o body) = lg + lb
          BY <2>9
        <4> HIDE DEF lf, lg, lb
        <4>3. lf + lb # lg + lb
          BY <4>1
        <4>4. QED
          BY <4>2, <4>3
      <3>3. QED
        BY <3>1, <3>2
    <2>11. Same(n) <=> SamePieces(config, carried, arrived)
      BY <2>0 DEF s, r, SamePieces
    <2>12. QED
      BY <1>2, <2>1, <2>2, <2>10, <2>11
  <1>3. QED
    BY <1>1, <1>2

-----------------------------------------------------------------------------
After(f, sources, order, body) ==
    f = [i \in 0..Len(order) |-> IF i = 0 THEN Header!Ok(<<>>)
                                 ELSE Header!OneMore(f[i - 1], sources[order[i]], order[i], body)]

LEMMA AfterExists ==
    ASSUME NEW sources, NEW order, NEW body, Len(order) \in Nat
    PROVE  \E f : After(f, sources, order, body)
  <1> DEFINE step(p, i) == Header!OneMore(p, sources[order[i]], order[i], body)
             IsAfter(f, m) ==
                 f = [i \in 0..m |-> IF i = 0 THEN Header!Ok(<<>>) ELSE step(f[i - 1], i)]
             S == {m \in Nat : \E f : IsAfter(f, m)}
  <1> HIDE DEF step, IsAfter
  <1>1. 0 \in S
    <2>1. IsAfter([i \in 0..0 |-> Header!Ok(<<>>)], 0)
      BY DEF IsAfter
    <2>2. QED
      BY <2>1
  <1>2. ASSUME NEW m \in Nat, m \in S PROVE m + 1 \in S
    <2>1. PICK f : IsAfter(f, m)
      BY <1>2
    <2> DEFINE g == [i \in 0..(m + 1) |-> IF i = m + 1 THEN step(f[m], i) ELSE f[i]]
    <2>2. \A i \in 0..m : g[i] = f[i] /\ f[i] = IF i = 0 THEN Header!Ok(<<>>) ELSE step(f[i - 1], i)
      <3>1. \A i \in 0..m : i \in 0..(m + 1) /\ i # m + 1
        OBVIOUS
      <3>2. \A i \in 0..m : f[i] = IF i = 0 THEN Header!Ok(<<>>) ELSE step(f[i - 1], i)
        BY <2>1 DEF IsAfter
      <3>3. QED
        BY <3>1, <3>2
    <2>3. g[m + 1] = step(g[m], m + 1)
      <3>1. m + 1 \in 0..(m + 1) /\ m \in 0..m
        OBVIOUS
      <3>2. g[m + 1] = step(f[m], m + 1)
        BY <3>1
      <3>3. g[m] = f[m]
        BY <2>2, <3>1
      <3>4. QED
        BY <3>2, <3>3
    <2>4. g = [i \in 0..(m + 1) |-> g[i]]
      OBVIOUS
    <2> HIDE DEF g
    <2>5. \A i \in 0..(m + 1) : g[i] = IF i = 0 THEN Header!Ok(<<>>) ELSE step(g[i - 1], i)
      <3> TAKE i \in 0..(m + 1)
      <3>1. CASE i = m + 1
        <4>1. i # 0 /\ i - 1 = m
          BY <3>1
        <4>2. QED
          BY <2>3, <3>1, <4>1
      <3>2. CASE i = 0
        BY <2>2, <3>2
      <3>3. CASE i # 0 /\ i # m + 1
        <4>1. i \in 0..m /\ i - 1 \in 0..m
          BY <3>3
        <4>2. QED
          BY <2>2, <3>3, <4>1
      <3>4. QED
        BY <3>1, <3>2, <3>3
    <2>6. IsAfter(g, m + 1)
      BY <2>4, <2>5 DEF IsAfter
    <2>7. m + 1 \in Nat /\ \E h : IsAfter(h, m + 1)
      BY <2>6
    <2>8. QED
      BY <2>7
  <1>3. Len(order) \in S
    BY <1>1, <1>2, SetInduction
  <1>4. PICK f : IsAfter(f, Len(order))
    BY <1>3
  <1>5. After(f, sources, order, body)
    BY <1>4 DEF After, step, IsAfter
  <1>6. QED
    BY <1>5

LEMMA GenerateAfter ==
    ASSUME NEW sources, NEW order, NEW body, Len(order) \in Nat
    PROVE  \E f : /\ After(f, sources, order, body)
                  /\ Header!GenerateHeaders(sources, order, body) = f[Len(order)]
  <1>1. \E f : After(f, sources, order, body)
    BY AfterExists
  <1> DEFINE f == CHOOSE f : After(f, sources, order, body)
  <1>2. After(f, sources, order, body)
    BY <1>1
  <1>3. Header!GenerateHeaders(sources, order, body) = f[Len(order)]
    BY Zenon DEF Header!GenerateHeaders, After
  <1>4. QED
    BY <1>2, <1>3

LEMMA ValueText ==
    ASSUME NEW source, Header!IsSource(source), NEW header, NEW headers, NEW body,
           Header!HeaderValue(source, header, headers, body).ok
    PROVE  Header!IsText(Header!HeaderValue(source, header, headers, body).value)
  <1>1. CASE source.type \in {"static", "secret"}
    <2>1. /\ Header!IsText(source.value)
          /\ Header!IsText(source.prefix) /\ Header!IsText(source.suffix)
      BY <1>1 DEF Header!IsSource
    <2>2. Header!IsText(Header!Enclose(source.value, source.prefix, source.suffix))
      BY <2>1, Joined DEF Header!Enclose
    <2>3. QED
      BY <1>1, <2>2 DEF Header!HeaderValue, Header!Ok
  <1>2. CASE source.type = "signature"
    <2> DEFINE config == [source EXCEPT !.header = header]
               mac == Header!Mac(config, headers, body)
    <2>1. config.prefix = source.prefix /\ Header!IsText(source.prefix)
      BY <1>2 DEF Header!IsSource
    <2>2. Header!HeaderValue(source, header, headers, body)
             = Header!BuildSignature(config, headers, body)
      BY <1>2 DEF Header!HeaderValue
    <2> HIDE DEF config
    <2>3. Header!BuildSignature(config, headers, body) =
             IF mac.ok THEN Header!Ok(config.prefix \o <<mac.value>>) ELSE mac
      BY DEF Header!BuildSignature
    <2> HIDE DEF mac
    <2>4. mac.ok
      BY <2>2, <2>3
    <2>5. Header!HeaderValue(source, header, headers, body).value = config.prefix \o <<mac.value>>
      BY <2>2, <2>3, <2>4 DEF Header!Ok
    <2>6. QED
      BY <2>1, <2>5, Joined, OneToken
  <1>3. QED
    BY <1>1, <1>2 DEF Header!IsSource

\* What generate_headers returns: a value for every header of the configuration, made
\* from those before it.
Made(V, sources, order, body) ==
    /\ DOMAIN V = DOMAIN sources
    /\ \A h \in DOMAIN sources :
          /\ h \notin BadName /\ Header!IsText(V[h]) /\ ~Header!Contains(V[h], Opaque)
          /\ \E earlier : LET value == Header!HeaderValue(sources[h], h, earlier, body)
                         IN  /\ DOMAIN earlier = Header!Before(order, h)
                             /\ \A g \in DOMAIN earlier : earlier[g] = V[g]
                             /\ value.ok /\ V[h] = value.value

LEMMA HeadersMade ==
    ASSUME NEW sources, \A h \in DOMAIN sources : Header!IsSource(sources[h]),
           NEW order, Header!IsOrder(order, sources), NEW body,
           Header!GenerateHeaders(sources, order, body).ok
    PROVE  Made(Header!GenerateHeaders(sources, order, body).value, sources, order, body)
  <1> DEFINE n == Len(order)
  <1>1. n \in Nat /\ DOMAIN order = 1..n /\ \A i \in 1..n : order[i] \in DOMAIN sources
    BY DEF Header!IsOrder, Header!IsText, Header!Range
  <1>2. PICK f : /\ After(f, sources, order, body)
                 /\ Header!GenerateHeaders(sources, order, body) = f[n]
    BY <1>1, GenerateAfter
  <1>3. /\ f[0] = Header!Ok(<<>>)
        /\ \A i \in 0..(n - 1) :
              f[i + 1] = Header!OneMore(f[i], sources[order[i + 1]], order[i + 1], body)
    <2>1. \A i \in 0..n : f[i] = IF i = 0 THEN Header!Ok(<<>>)
                                 ELSE Header!OneMore(f[i - 1], sources[order[i]], order[i], body)
      BY <1>2 DEF After
    <2>2. 0 \in 0..n /\ \A i \in 0..(n - 1) : i + 1 \in 0..n /\ i + 1 # 0 /\ (i + 1) - 1 = i
      BY <1>1
    <2>3. QED
      BY <2>1, <2>2
  <1> DEFINE value(i, j) == Header!HeaderValue(sources[order[i]], order[i], f[j].value, body)
  <1> HIDE DEF n
  <1>4. ASSUME NEW i \in 0..(n - 1), f[i + 1].ok
        PROVE  /\ f[i].ok /\ order[i + 1] \notin BadName /\ value(i + 1, i).ok
               /\ ~Header!Contains(value(i + 1, i).value, Opaque)
               /\ f[i + 1].value = Header!Put(f[i].value, order[i + 1], value(i + 1, i).value)
    <2> DEFINE v == value(i + 1, i)
    <2>1. f[i + 1] = IF ~f[i].ok THEN f[i]
                     ELSE IF order[i + 1] \in BadName THEN Header!Err("InvalidHeaderName")
                     ELSE IF ~v.ok THEN Header!Err("SignatureGeneration")
                     ELSE IF Header!Contains(v.value, Opaque) THEN Header!Err("InvalidHeaderValue")
                     ELSE Header!Ok(Header!Put(f[i].value, order[i + 1], v.value))
      BY <1>3 DEF Header!OneMore
    <2> HIDE DEF v
    <2>2. \A e : ~Header!Err(e).ok
      BY DEF Header!Err
    <2>3. /\ f[i].ok /\ order[i + 1] \notin BadName /\ v.ok /\ ~Header!Contains(v.value, Opaque)
      BY <1>4, <2>1, <2>2
    <2>4. f[i + 1].value = Header!Put(f[i].value, order[i + 1], v.value)
      BY <2>1, <2>3 DEF Header!Ok
    <2>5. QED
      BY <2>3, <2>4 DEF v
  <1>5. \A i \in 0..n : f[i].ok
    <2> DEFINE S == {k \in Nat : k <= n => f[n - k].ok}
    <2>1. 0 \in S
      BY <1>1, <1>2
    <2>2. ASSUME NEW k \in Nat, k \in S PROVE k + 1 \in S
      <3> SUFFICES ASSUME k + 1 <= n PROVE f[n - (k + 1)].ok
        OBVIOUS
      <3>1. n - (k + 1) \in 0..(n - 1) /\ (n - (k + 1)) + 1 = n - k /\ k <= n
        BY <1>1
      <3>2. QED
        BY <1>4, <2>2, <3>1
    <2>3. Nat \subseteq S
      BY <2>1, <2>2, SetInduction
    <2>4. \A i \in 0..n : n - i \in Nat /\ n - i <= n /\ n - (n - i) = i
      BY <1>1
    <2>5. QED
      BY <2>3, <2>4
  <1> DEFINE Upto(i) == {order[j] : j \in 1..i}
             Right(i) == /\ DOMAIN f[i].value = Upto(i)
                         /\ \A j \in 1..i : f[i].value[order[j]] = value(j, j - 1).value
             S == {i \in Nat : i <= n => Right(i)}
  <1> HIDE DEF value
  <1>6. 0 \in S
    <2>1. f[0].value = <<>>
      BY <1>3 DEF Header!Ok
    <2>2. DOMAIN <<>> = {} /\ 1..0 = {}
      OBVIOUS
    <2>3. QED
      BY <2>1, <2>2
  <1>7. ASSUME NEW i \in Nat, i \in S PROVE i + 1 \in S
    <2> SUFFICES ASSUME i + 1 <= n PROVE Right(i + 1)
      OBVIOUS
    <2>1. i \in 0..(n - 1) /\ i + 1 \in 0..n /\ i <= n /\ (i + 1) - 1 = i
      BY <1>1
    <2>2. f[i + 1].value = Header!Put(f[i].value, order[i + 1], value(i + 1, i).value)
      BY <1>4, <1>5, <2>1
    <2>3. Right(i)
      BY <1>7, <2>1
    <2>4. /\ DOMAIN f[i + 1].value = Upto(i) \cup {order[i + 1]}
          /\ \A g \in Upto(i) \cup {order[i + 1]} :
                f[i + 1].value[g] = IF g = order[i + 1] THEN value(i + 1, i).value
                                    ELSE f[i].value[g]
      BY <2>2, <2>3 DEF Header!Put
    <2>5. 1..(i + 1) = (1..i) \cup {i + 1}
      OBVIOUS
    <2>6. Upto(i + 1) = Upto(i) \cup {order[i + 1]}
      BY <2>5
    <2>7. \A j \in 1..i : order[j] # order[i + 1]
      <3>1. \A j \in 1..i : j \in 1..n /\ j # i + 1
        BY <1>1, <2>1
      <3>2. i + 1 \in 1..n
        BY <1>1, <2>1
      <3>3. QED
        BY <1>1, <3>1, <3>2 DEF Header!IsOrder
    <2>8. ASSUME NEW j \in 1..(i + 1)
          PROVE  f[i + 1].value[order[j]] = value(j, j - 1).value
      <3>1. CASE j = i + 1
        BY <2>1, <2>4, <3>1
      <3>2. CASE j \in 1..i
        <4>1. order[j] \in Upto(i) /\ order[j] # order[i + 1]
          BY <2>7, <3>2
        <4>2. f[i + 1].value[order[j]] = f[i].value[order[j]]
          BY <2>4, <4>1
        <4>3. QED
          BY <2>3, <3>2, <4>2
      <3>3. QED
        BY <2>5, <3>1, <3>2
    <2>9. QED
      BY <2>4, <2>6, <2>8
  <1>8. \A i \in 0..n : Right(i)
    <2>1. Nat \subseteq S
      BY <1>6, <1>7, SetInduction
    <2>2. \A i \in 0..n : i \in Nat /\ i <= n
      BY <1>1
    <2> HIDE DEF Right
    <2>3. QED
      BY <2>1, <2>2
  <1> DEFINE V == f[n].value
  <1>9. DOMAIN V = DOMAIN sources
    <2>1. n \in 0..n /\ Upto(n) = Header!Range(order)
      BY <1>1 DEF Header!Range
    <2>2. QED
      BY <1>8, <2>1 DEF Header!IsOrder
  <1>10. ASSUME NEW j \in 1..n
         PROVE  /\ order[j] \notin BadName /\ value(j, j - 1).ok
                /\ ~Header!Contains(value(j, j - 1).value, Opaque)
                /\ \A i \in j..n : f[i].value[order[j]] = value(j, j - 1).value
    <2>1. j - 1 \in 0..(n - 1) /\ (j - 1) + 1 = j /\ j \in 0..n
      BY <1>1
    <2>2. f[(j - 1) + 1].ok
      BY <1>5, <2>1
    <2>3. /\ order[j] \notin BadName /\ value(j, j - 1).ok
          /\ ~Header!Contains(value(j, j - 1).value, Opaque)
      BY <1>4, <2>1, <2>2
    <2>4. \A i \in j..n : i \in 0..n /\ j \in 1..i
      BY <1>1
    <2>5. QED
      BY <1>8, <2>3, <2>4
  <1>11. ASSUME NEW h \in DOMAIN sources
         PROVE  /\ h \notin BadName /\ Header!IsText(V[h]) /\ ~Header!Contains(V[h], Opaque)
                /\ \E earlier : LET val == Header!HeaderValue(sources[h], h, earlier, body)
                               IN  /\ DOMAIN earlier = Header!Before(order, h)
                                   /\ \A g \in DOMAIN earlier : earlier[g] = V[g]
                                   /\ val.ok /\ V[h] = val.value
    <2>1. PICK j \in 1..n : order[j] = h
      BY <1>1 DEF Header!IsOrder, Header!Range
    <2> DEFINE earlier == f[j - 1].value
    <2>2. n \in j..n /\ j - 1 \in 0..n
      BY <1>1
    <2>3. V[h] = value(j, j - 1).value
      BY <1>10, <2>1, <2>2
    <2>4. h \notin BadName /\ ~Header!Contains(V[h], Opaque) /\ value(j, j - 1).ok
      BY <1>10, <2>1, <2>3
    <2>5. value(j, j - 1) = Header!HeaderValue(sources[h], h, earlier, body)
      BY <2>1 DEF value
    <2>6. Header!IsText(V[h])
      BY <2>3, <2>4, <2>5, ValueText
    <2>7. DOMAIN earlier = Header!Before(order, h)
      <3>1. DOMAIN earlier = Upto(j - 1)
        BY <1>8, <2>2
      <3>2. ASSUME NEW g \in Upto(j - 1) PROVE g \in Header!Before(order, h)
        <4>1. PICK i \in 1..(j - 1) : g = order[i]
          OBVIOUS
        <4>2. i \in 1..n /\ i < j
          BY <1>1
        <4>3. QED
          BY <1>1, <2>1, <4>1, <4>2 DEF Header!Before, Header!Range
      <3>3. ASSUME NEW g \in Header!Before(order, h) PROVE g \in Upto(j - 1)
        <4>1. PICK i \in 1..n, k \in 1..n : i < k /\ order[i] = g /\ order[k] = h
          BY <1>1 DEF Header!Before
        <4>2. k = j
          BY <1>1, <2>1, <4>1 DEF Header!IsOrder
        <4>3. i \in 1..(j - 1)
          BY <1>1, <4>1, <4>2
        <4>4. QED
          BY <4>1, <4>3
      <3>4. QED
        BY <3>1, <3>2, <3>3
    <2>8. ASSUME NEW g \in DOMAIN earlier PROVE earlier[g] = V[g]
      <3>1. PICK i \in 1..(j - 1) : g = order[i]
        BY <1>8, <2>2, <2>8
      <3>2. i \in 1..n /\ n \in i..n /\ j - 1 \in i..n
        BY <1>1
      <3>3. QED
        BY <1>10, <3>1, <3>2
    <2> HIDE DEF earlier
    <2>9. QED
      BY <2>3, <2>4, <2>5, <2>6, <2>7, <2>8
  <1> HIDE DEF V
  <1>12. Made(V, sources, order, body)
    BY <1>9, <1>11 DEF Made
  <1>13. QED
    BY <1>2, <1>12 DEF V

-----------------------------------------------------------------------------
LEMMA WithoutPrefix ==
    ASSUME NEW T, NEW p \in Seq(T), NEW m
    PROVE  LET t == p \o <<m>>
               rest == SubSeq(t, Len(p) + 1, Len(t))
           IN  Len(rest) = 1 /\ rest[1] = m
  <1> DEFINE t == p \o <<m>>
             n == Len(p)
  <1>1. n \in Nat /\ Len(t) = n + 1 /\ t[n + 1] = m /\ t \in Seq(T \cup {m})
    OBVIOUS
  <1> HIDE DEF t, n
  <1>2. Len(SubSeq(t, n + 1, n + 1)) = 1 /\ SubSeq(t, n + 1, n + 1)[1] = t[n + 1]
    BY <1>1
  <1>3. QED
    BY <1>1, <1>2 DEF t, n

\* A signature is accepted exactly if it was made of what is checked.
LEMMA SignatureChecked ==
    ASSUME NEW config, "header" \in DOMAIN config, Header!IsText(config.prefix),
           NEW earlier, NEW arrived, NEW body,
           Header!BuildSignature(config, earlier, body).ok,
           Header!Readable(arrived, config.header),
           arrived[config.header] = Header!BuildSignature(config, earlier, body).value
    PROVE  Header!CheckSignature(config, arrived, body).ok
             <=> Header!Payload(config, earlier, body) = Header!Payload(config, arrived, body)
  <1> DEFINE key  == Header!Key(config)
             p(headers) == Header!Payload(config, headers, body)
             made == <<config.encoding, key.value, p(earlier)>>
             mac  == Header!Mac(config, arrived, body)
             text == arrived[config.header]
             rest == SubSeq(text, Len(config.prefix) + 1, Len(text))
  <1>1. /\ key.ok /\ text = config.prefix \o <<made>>
        /\ mac = Header!Ok(<<config.encoding, key.value, p(arrived)>>)
    <2> HIDE DEF key, p
    <2>1. \A headers : Header!Mac(config, headers, body) =
                          IF ~key.ok THEN key
                          ELSE Header!Ok(<<config.encoding, key.value, p(headers)>>)
      BY DEF Header!Mac, key, p
    <2>2. Header!BuildSignature(config, earlier, body) =
             IF Header!Mac(config, earlier, body).ok
             THEN Header!Ok(config.prefix \o <<Header!Mac(config, earlier, body).value>>)
             ELSE Header!Mac(config, earlier, body)
      BY DEF Header!BuildSignature
    <2>3. Header!Mac(config, earlier, body).ok
      BY <2>2
    <2>4. key.ok
      BY <2>1, <2>3
    <2>5. Header!Mac(config, earlier, body) = Header!Ok(made)
      BY <2>1, <2>4
    <2>6. text = config.prefix \o <<Header!Mac(config, earlier, body).value>>
      BY <2>2, <2>3 DEF Header!Ok
    <2>7. Header!Mac(config, earlier, body).value = made
      BY <2>5 DEF Header!Ok
    <2>8. QED
      BY <2>1, <2>4, <2>6, <2>7
  <1>2. mac.ok /\ mac.value = <<config.encoding, key.value, p(arrived)>>
    BY <1>1 DEF Header!Ok
  <1> HIDE DEF mac, key, p
  <1>3. /\ Header!IsPrefix(config.prefix, text) /\ Len(rest) = 1 /\ rest[1] = made
    <2> DEFINE T == Header!Range(config.prefix) \cup {made}
               signed == config.prefix \o <<made>>
    <2> HIDE DEF made
    <2>1. config.prefix \in Seq(T)
      <3>1. /\ config.prefix \in Seq(Header!Range(config.prefix))
            /\ Header!Range(config.prefix) \subseteq T
        BY DEF Header!IsText
      <3> HIDE DEF T
      <3>2. QED
        BY <3>1
    <2> HIDE DEF T
    <2>2. Header!IsPrefix(config.prefix, signed)
      BY <2>1 DEF Header!IsPrefix
    <2>3. LET last == SubSeq(signed, Len(config.prefix) + 1, Len(signed))
          IN  Len(last) = 1 /\ last[1] = made
      BY <2>1, WithoutPrefix
    <2>4. text = signed
      BY <1>1
    <2> HIDE DEF signed, text
    <2>5. QED
      BY <2>2, <2>3, <2>4
  <1> HIDE DEF rest
  <1>4. Len(rest) = 1 /\ rest[1] = made /\ made[1] = config.encoding
    <2>1. made[1] = config.encoding
      OBVIOUS
    <2>2. QED
      BY <1>3, <2>1
  <1>5. rest[1] = mac.value <=> p(earlier) = p(arrived)
    BY <1>2, <1>4
  <1>6. Header!CheckSignature(config, arrived, body) =
           IF ~Header!Readable(arrived, config.header) THEN Header!Err("SignatureNotFound")
           ELSE IF \/ ~Header!IsPrefix(config.prefix, text)
                   \/ Len(rest) # 1 \/ rest[1][1] # config.encoding
           THEN Header!Err("VerificationMismatch")
           ELSE IF ~mac.ok THEN mac
           ELSE IF rest[1] # mac.value THEN Header!Err("VerificationMismatch")
           ELSE Header!Ok(<<>>)
    BY DEF Header!CheckSignature, mac, rest
  <1> HIDE DEF text
  <1>7. Header!CheckSignature(config, arrived, body) =
           IF rest[1] # mac.value THEN Header!Err("VerificationMismatch") ELSE Header!Ok(<<>>)
    BY <1>2, <1>3, <1>4, <1>6 DEF text
  <1>8. Header!Ok(<<>>).ok /\ ~Header!Err("VerificationMismatch").ok
    BY DEF Header!Ok, Header!Err
  <1>9. QED
    BY <1>5, <1>7, <1>8 DEF p

LEMMA EnclosedText ==
    ASSUME NEW source, Header!IsSource(source), source.type # "signature"
    PROVE  Header!IsText(Header!Enclose(source.value, source.prefix, source.suffix))
  BY Joined DEF Header!IsSource, Header!Enclose

-----------------------------------------------------------------------------
\* What arrives: every configured header as it was made, whatever the event brought.
Arrives(V, arrived) ==
    /\ Header!AllText(arrived)
    /\ DOMAIN V \subseteq DOMAIN arrived
    /\ \A h \in DOMAIN V : arrived[h] = V[h]

\* Values of texts, and their concatenation.
AllTexts(s) == Header!IsText(s) /\ \A i \in 1..Len(s) : Header!IsText(s[i])

LEMMA ValuesTexts ==
    ASSUME NEW headers, Header!AllText(headers), NEW h
    PROVE  /\ AllTexts(Header!Values(headers, h))
           /\ h \in DOMAIN headers => /\ Len(Header!Values(headers, h)) = 1
                                      /\ Header!Values(headers, h)[1] = headers[h]
           /\ h \notin DOMAIN headers => Header!Values(headers, h) = <<>>
  <1>1. CASE h \in DOMAIN headers
    <2>1. Header!IsText(headers[h]) /\ Header!Values(headers, h) = <<headers[h]>>
      BY <1>1 DEF Header!AllText, Header!Values
    <2> DEFINE v == headers[h]
    <2> HIDE DEF v
    <2>2. Header!IsText(<<v>>) /\ Len(<<v>>) = 1 /\ <<v>>[1] = v
      BY OneToken
    <2>3. Header!IsText(v) => AllTexts(<<v>>)
      BY <2>2 DEF AllTexts
    <2>4. QED
      BY <1>1, <2>1, <2>2, <2>3 DEF v
  <1>2. CASE h \notin DOMAIN headers
    <2>1. Header!Values(headers, h) = <<>>
      BY <1>2 DEF Header!Values
    <2>2. AllTexts(<<>>)
      BY EmptyText DEF AllTexts
    <2>3. QED
      BY <1>2, <2>1, <2>2
  <1>3. QED
    BY <1>1, <1>2

LEMMA TextsJoined ==
    ASSUME NEW a, NEW b, AllTexts(a), AllTexts(b)
    PROVE  /\ AllTexts(a \o b) /\ Len(a \o b) = Len(a) + Len(b)
           /\ Len(a) \in Nat /\ Len(b) \in Nat
           /\ Len(b) > 0 => (a \o b)[Len(a) + Len(b)] = b[Len(b)]
  <1>1. Header!IsText(a) /\ Header!IsText(b)
    BY DEF AllTexts
  <1> DEFINE c == a \o b
             m == Len(a)
             n == Len(b)
  <1>2. /\ Header!IsText(c) /\ m \in Nat /\ n \in Nat /\ Len(c) = m + n
        /\ \A i \in 1..m : c[i] = a[i]
        /\ \A i \in 1..n : c[m + i] = b[i]
    BY <1>1, Joined
  <1>3. \A i \in 1..m : Header!IsText(a[i])
    BY DEF AllTexts
  <1>4. \A i \in 1..n : Header!IsText(b[i])
    BY DEF AllTexts
  <1> HIDE DEF c, m, n
  <1>5. ASSUME NEW i \in 1..(m + n) PROVE Header!IsText(c[i])
    <2>1. CASE i \in 1..m
      BY <1>2, <1>3, <2>1
    <2>2. CASE i \notin 1..m
      <3>1. i - m \in 1..n /\ m + (i - m) = i
        BY <1>2, <2>2
      <3>2. QED
        BY <1>2, <1>4, <3>1
    <2>3. QED
      BY <2>1, <2>2
  <1>6. AllTexts(c)
    BY <1>2, <1>5 DEF AllTexts
  <1>7. n > 0 => c[m + n] = b[n]
    BY <1>2
  <1>8. QED
    BY <1>2, <1>6, <1>7 DEF c, m, n

\* What was sent: of a configured header the last value is the one made, and over HTTP
\* the only one.
IsSent(transport, V, carried) ==
    /\ DOMAIN V \subseteq DOMAIN carried
    /\ \A h \in DOMAIN carried : AllTexts(carried[h]) /\ Len(carried[h]) > 0
    /\ \A h \in DOMAIN V : /\ carried[h][Len(carried[h])] = V[h]
                           /\ transport = "http" => Len(carried[h]) = 1

LEMMA HttpSent ==
    ASSUME NEW event, Header!IsEvent(event), NEW V, Header!AllText(V)
    PROVE  IsSent("http", V, Header!HttpHeaders(event, V))
  <1> DEFINE own == Header!Restrict(event.headers, DOMAIN event.headers \ Header!Managed)
             ce  == IF DOMAIN event.context = {} THEN <<>>
                    ELSE Header!Put(event.context, "ce-specversion", <<Version>>)
             default == IF "content-type" \in DOMAIN own THEN <<>> ELSE Header!ContentType
             names == DOMAIN default \cup DOMAIN ce \cup DOMAIN own \cup DOMAIN event.trace
             appended(h) == Header!Values(default, h) \o Header!Values(ce, h)
                            \o Header!Values(own, h) \o Header!Values(event.trace, h)
             carried == Header!HttpHeaders(event, V)
  <1>1. /\ Header!AllText(event.headers) /\ Header!AllText(event.context)
        /\ Header!AllText(event.trace)
    BY DEF Header!IsEvent
  <1>2. Header!AllText(own)
    BY <1>1 DEF Header!AllText, Header!Restrict
  <1>3. Header!AllText(ce)
    <2>1. Header!AllText(<<>>)
      BY DEF Header!AllText
    <2>2. Header!AllText(Header!Put(event.context, "ce-specversion", <<Version>>))
      BY <1>1, OneToken DEF Header!AllText, Header!Put
    <2>3. QED
      BY <2>1, <2>2
  <1>4. Header!AllText(default)
    <2>1. Header!AllText(<<>>)
      BY DEF Header!AllText
    <2>2. Header!AllText(Header!ContentType)
      BY OneToken DEF Header!AllText, Header!ContentType
    <2>3. QED
      BY <2>1, <2>2
  <1>5. carried = [h \in DOMAIN V \cup names |->
                   IF h \in DOMAIN V THEN <<V[h]>> ELSE appended(h)]
    BY DEF Header!HttpHeaders
  <1> HIDE DEF own, ce, default, carried
  <1>6. ASSUME NEW h \in names PROVE AllTexts(appended(h)) /\ Len(appended(h)) > 0
    <2> DEFINE d == Header!Values(default, h)
               c == Header!Values(ce, h)
               o == Header!Values(own, h)
               t == Header!Values(event.trace, h)
    <2>1. AllTexts(d) /\ AllTexts(c) /\ AllTexts(o) /\ AllTexts(t)
      BY <1>1, <1>2, <1>3, <1>4, ValuesTexts
    <2>2. Len(d) = 1 \/ Len(c) = 1 \/ Len(o) = 1 \/ Len(t) = 1
      BY <1>1, <1>2, <1>3, <1>4, ValuesTexts
    <2> HIDE DEF d, c, o, t
    <2>3. /\ AllTexts(d \o c) /\ Len(d \o c) = Len(d) + Len(c)
          /\ Len(d) \in Nat /\ Len(c) \in Nat
      BY <2>1, TextsJoined
    <2>4. /\ AllTexts(d \o c \o o) /\ Len(d \o c \o o) = Len(d \o c) + Len(o) /\ Len(o) \in Nat
      BY <2>1, <2>3, TextsJoined
    <2>5. /\ AllTexts(d \o c \o o \o t) /\ Len(d \o c \o o \o t) = Len(d \o c \o o) + Len(t)
          /\ Len(t) \in Nat
      BY <2>1, <2>4, TextsJoined
    <2>6. Len(d \o c \o o \o t) > 0
      BY <2>2, <2>3, <2>4, <2>5
    <2>7. QED
      BY <2>5, <2>6 DEF d, c, o, t
  <1>7. ASSUME NEW h \in DOMAIN V
        PROVE  AllTexts(carried[h]) /\ Len(carried[h]) = 1 /\ carried[h][1] = V[h]
    <2>1. carried[h] = Header!Values(V, h)
      BY <1>5 DEF Header!Values
    <2>2. QED
      BY <2>1, ValuesTexts
  <1> HIDE DEF names, appended
  <1>8. \A h \in DOMAIN carried : AllTexts(carried[h]) /\ Len(carried[h]) > 0
    BY <1>5, <1>6, <1>7
  <1>9. \A h \in DOMAIN V : carried[h][Len(carried[h])] = V[h] /\ Len(carried[h]) = 1
    BY <1>7
  <1>10. DOMAIN V \subseteq DOMAIN carried
    BY <1>5
  <1>11. QED
    BY <1>8, <1>9, <1>10 DEF IsSent, carried

LEMMA KafkaSent ==
    ASSUME NEW event, Header!IsEvent(event), NEW V, Header!AllText(V)
    PROVE  IsSent("kafka", V, Header!KafkaHeaders(event, V))
  <1> DEFINE carried == Header!KafkaHeaders(event, V)
             all(h) == Header!Values(event.headers, h) \o Header!Values(Header!ContentType, h)
                       \o Header!Values(V, h)
             names == DOMAIN event.headers \cup DOMAIN Header!ContentType \cup DOMAIN V
  <1>1. Header!AllText(event.headers) /\ Header!AllText(Header!ContentType)
    BY OneToken DEF Header!IsEvent, Header!AllText, Header!ContentType
  <1>2. carried = [h \in names |-> all(h)]
    BY DEF Header!KafkaHeaders
  <1> HIDE DEF carried
  <1>3. ASSUME NEW h \in names
        PROVE  /\ AllTexts(all(h)) /\ Len(all(h)) > 0
               /\ h \in DOMAIN V => all(h)[Len(all(h))] = V[h]
    <2> DEFINE o == Header!Values(event.headers, h)
               c == Header!Values(Header!ContentType, h)
               v == Header!Values(V, h)
    <2>1. AllTexts(o) /\ AllTexts(c) /\ AllTexts(v)
      BY <1>1, ValuesTexts
    <2>2. /\ Len(o) = 1 \/ Len(c) = 1 \/ Len(v) = 1
          /\ h \in DOMAIN V => Len(v) = 1 /\ v[1] = V[h]
      BY <1>1, ValuesTexts
    <2> HIDE DEF o, c, v
    <2>3. /\ AllTexts(o \o c) /\ Len(o \o c) = Len(o) + Len(c)
          /\ Len(o) \in Nat /\ Len(c) \in Nat
      BY <2>1, TextsJoined
    <2>4. /\ AllTexts(o \o c \o v) /\ Len(o \o c \o v) = Len(o \o c) + Len(v) /\ Len(v) \in Nat
          /\ Len(v) > 0 => (o \o c \o v)[Len(o \o c) + Len(v)] = v[Len(v)]
      BY <2>1, <2>3, TextsJoined
    <2>5. Len(o \o c \o v) > 0
      <3> DEFINE l == Len(o \o c \o v)
                 m == Len(o \o c)
                 lo == Len(o)
                 lc == Len(c)
                 lv == Len(v)
      <3>1. /\ l = m + lv /\ m = lo + lc /\ lo \in Nat /\ lc \in Nat /\ lv \in Nat
            /\ lo = 1 \/ lc = 1 \/ lv = 1
        BY <2>2, <2>3, <2>4
      <3> HIDE DEF l, m, lo, lc, lv
      <3>2. l > 0
        BY <3>1
      <3>3. QED
        BY <3>2 DEF l
    <2>6. h \in DOMAIN V => (o \o c \o v)[Len(o \o c \o v)] = V[h]
      <3> DEFINE a == o \o c \o v
                 m == Len(o \o c)
      <3>1. /\ Len(a) = m + Len(v)
            /\ Len(v) > 0 => a[m + Len(v)] = v[Len(v)]
            /\ h \in DOMAIN V => Len(v) = 1 /\ v[1] = V[h]
        BY <2>2, <2>4
      <3> HIDE DEF a, m
      <3>2. ASSUME h \in DOMAIN V PROVE a[Len(a)] = V[h]
        <4>1. Len(v) = 1 /\ v[1] = V[h]
          BY <3>1, <3>2
        <4>2. Len(a) = m + 1 /\ a[m + 1] = v[1]
          BY <3>1, <4>1
        <4>3. QED
          BY Zenon, <4>1, <4>2
      <3>3. QED
        BY <3>2 DEF a
    <2>7. QED
      BY <2>4, <2>5, <2>6 DEF o, c, v
  <1> HIDE DEF all
  <1>4. QED
    BY <1>2, <1>3 DEF IsSent, carried

LEMMA NatsSent ==
    ASSUME NEW event, Header!IsEvent(event), NEW V, Header!AllText(V)
    PROVE  IsSent("nats", V, Header!NatsHeaders(event, V))
  <1> DEFINE all == Header!KafkaHeaders(event, V)
             carried == Header!NatsHeaders(event, V)
  <1>1. IsSent("kafka", V, all)
    BY KafkaSent
  <1>2. carried = [h \in DOMAIN all |-> <<all[h][Len(all[h])]>>]
    BY DEF Header!NatsHeaders, Header!Last
  <1> HIDE DEF all, carried
  <1>3. ASSUME NEW h \in DOMAIN all
        PROVE  /\ AllTexts(carried[h]) /\ Len(carried[h]) = 1
               /\ h \in DOMAIN V => carried[h][1] = V[h]
    <2> DEFINE v == all[h][Len(all[h])]
    <2>1. AllTexts(all[h]) /\ Len(all[h]) > 0
      BY <1>1 DEF IsSent
    <2>2. Len(all[h]) \in Nat
      BY <2>1 DEF AllTexts, Header!IsText
    <2>3. Header!IsText(v)
      BY <2>1, <2>2 DEF AllTexts
    <2>4. carried[h] = <<v>> /\ (h \in DOMAIN V => v = V[h])
      BY <1>1, <1>2 DEF IsSent
    <2> HIDE DEF v
    <2>5. AllTexts(<<v>>) /\ Len(<<v>>) = 1 /\ <<v>>[1] = v
      BY <2>3, OneToken DEF AllTexts
    <2>6. QED
      BY <2>4, <2>5
  <1>4. DOMAIN carried = DOMAIN all
    BY <1>2
  <1>5. QED
    BY <1>1, <1>3, <1>4 DEF IsSent, carried

LEMMA SentHeaders ==
    ASSUME NEW transport \in {"http", "kafka", "nats"}, NEW event, Header!IsEvent(event),
           NEW V, Header!AllText(V)
    PROVE  IsSent(transport, V, Header!Sent(transport, event, V))
  BY HttpSent, KafkaSent, NatsSent DEF Header!Sent

LEMMA ArrivedHeaders ==
    ASSUME NEW transport \in {"http", "kafka", "nats"}, NEW V,
           NEW carried, IsSent(transport, V, carried),
           \A h \in DOMAIN V : h \notin BadName
    PROVE  Arrives(V, Header!Validated(transport, carried))
  <1> DEFINE arrived == Header!Validated(transport, carried)
  <1>1. arrived = [h \in DOMAIN carried \ BadName |->
                      IF transport = "http" THEN carried[h][1] ELSE carried[h][Len(carried[h])]]
    BY DEF Header!Validated, Header!Last
  <1> HIDE DEF arrived
  <1>2. ASSUME NEW h \in DOMAIN carried
        PROVE  Header!IsText(carried[h][1]) /\ Header!IsText(carried[h][Len(carried[h])])
    <2>1. AllTexts(carried[h]) /\ Len(carried[h]) > 0 /\ Len(carried[h]) \in Nat
      BY DEF IsSent, AllTexts, Header!IsText
    <2>2. QED
      BY <2>1 DEF AllTexts
  <1>3. Header!AllText(arrived)
    BY <1>1, <1>2 DEF Header!AllText
  <1>4. DOMAIN V \subseteq DOMAIN arrived
    BY <1>1 DEF IsSent
  <1>5. \A h \in DOMAIN V : arrived[h] = V[h]
    BY <1>1 DEF IsSent
  <1>6. QED
    BY <1>3, <1>4, <1>5 DEF Arrives, arrived

\* A configured header that is kept is as it was made, and all are kept but the
\* sensitive ones of a request.
LEMMA KeptHeaders ==
    ASSUME NEW transport, NEW V, NEW carried, IsSent(transport, V, carried),
           \A h \in DOMAIN V : ~Header!Contains(V[h], Opaque), NEW sensitive, NEW toKeep
    PROVE  LET kept == Header!Keep(transport, carried, sensitive, toKeep)
           IN  /\ \A h \in DOMAIN V \cap DOMAIN kept : kept[h] = V[h]
               /\ (DOMAIN V \cap toKeep) \ sensitive \subseteq DOMAIN kept
  <1> DEFINE kept == Header!Keep(transport, carried, sensitive, toKeep)
             readable(h) == {i \in DOMAIN carried[h] : ~Header!Contains(carried[h][i], Opaque)}
             last(h) == CHOOSE i \in readable(h) : \A j \in readable(h) : j <= i
             isKept(g) == readable(g) # {} /\ (transport = "http" => g \notin sensitive)
  <1>1. kept = [h \in {g \in DOMAIN carried \cap toKeep : isKept(g)} |-> carried[h][last(h)]]
    BY DEF Header!Keep
  <1> HIDE DEF kept
  <1>2. ASSUME NEW h \in DOMAIN V
        PROVE  readable(h) # {} /\ carried[h][last(h)] = V[h]
    <2> DEFINE n == Len(carried[h])
    <2>1. /\ n \in Nat /\ n > 0 /\ DOMAIN carried[h] = 1..n /\ carried[h][n] = V[h]
      BY DEF IsSent, AllTexts, Header!IsText
    <2>2. n \in readable(h) /\ \A j \in readable(h) : j <= n
      BY <2>1
    <2>3. \A i \in readable(h) : i \in Nat
      BY <2>1
    <2> HIDE DEF n, readable
    <2>4. last(h) \in readable(h) /\ \A j \in readable(h) : j <= last(h)
      BY <2>2
    <2> HIDE DEF last
    <2>5. last(h) = n
      <3>1. last(h) \in Nat /\ n <= last(h) /\ last(h) <= n
        BY Zenon, <2>2, <2>3, <2>4
      <3>2. QED
        BY <2>1, <3>1
    <2>6. QED
      BY <2>1, <2>2, <2>5
  <1> HIDE DEF readable, last
  <1>3. DOMAIN V \subseteq DOMAIN carried
    BY DEF IsSent
  <1>4. QED
    BY <1>1, <1>2, <1>3 DEF kept

-----------------------------------------------------------------------------
\* A rule that mirrors a static value or a secret accepts what was made of it.
LEMMA EqualAccepted ==
    ASSUME NEW source, Header!IsSource(source), source.type # "signature",
           NEW arrived, NEW h, NEW earlier, NEW body,
           Header!Readable(arrived, h),
           arrived[h] = Header!HeaderValue(source, h, earlier, body).value
    PROVE  Header!Unmatched(arrived, h, [source EXCEPT !.type = "equals"], body) = None
  <1> DEFINE rule == [source EXCEPT !.type = "equals"]
  <1>1. /\ source.type \in {"static", "secret"}
        /\ rule.type = "equals" /\ rule.value = source.value /\ rule.prefix = source.prefix
        /\ rule.suffix = source.suffix
    BY DEF Header!IsSource
  <1> HIDE DEF rule
  <1>2. arrived[h] = Header!Enclose(rule.value, rule.prefix, rule.suffix)
    BY <1>1 DEF Header!HeaderValue, Header!Ok
  <1>3. Header!Equals(arrived[h], rule)
    BY <1>2 DEF Header!Equals
  <1>4. Header!Unmatched(arrived, h, rule, body) = None
    BY <1>1, <1>3 DEF Header!Unmatched
  <1>5. QED
    BY <1>4 DEF rule

\* A rule that mirrors a signature accepts it exactly if it was made of what is checked.
LEMMA SignatureAccepted ==
    ASSUME None \notin Header!Reasons,
           NEW source, Header!IsSource(source), source.type = "signature",
           NEW arrived, Header!AllText(arrived), NEW earlier, NEW body, Header!IsText(body), NEW h,
           Header!Readable(arrived, h), Header!HeaderValue(source, h, earlier, body).ok,
           arrived[h] = Header!HeaderValue(source, h, earlier, body).value,
           DOMAIN earlier \subseteq DOMAIN arrived,
           \A g \in DOMAIN earlier : earlier[g] = arrived[g]
    PROVE  Header!Unmatched(arrived, h, source, body) = None
             <=> Header!Over(source, arrived) \subseteq DOMAIN earlier
  <1> DEFINE config == [source EXCEPT !.header = h]
             piece(headers, g) == Header!Piece(headers, g, source.separator)
  <1>1. /\ "header" \in DOMAIN config /\ config.header = h
        /\ config.prefix = source.prefix /\ config.signed = source.signed
        /\ config.separator = source.separator /\ config.signatureOn = source.signatureOn
        /\ Header!IsText(source.prefix) /\ Header!IsText(source.signed)
        /\ Header!IsText(source.separator)
    BY DEF Header!IsSource
  <1>2. Header!HeaderValue(source, h, earlier, body) = Header!BuildSignature(config, earlier, body)
    BY DEF Header!HeaderValue
  <1>3. Header!Unmatched(arrived, h, source, body) =
           IF Header!CheckSignature(config, arrived, body).ok THEN None ELSE "SignatureValidation"
    BY DEF Header!Unmatched
  <1> HIDE DEF config
  <1>4. Header!CheckSignature(config, arrived, body).ok
           <=> Header!Payload(config, earlier, body) = Header!Payload(config, arrived, body)
    BY <1>1, <1>2, SignatureChecked
  <1>5. \A g : piece(earlier, g) = IF g \in DOMAIN earlier THEN piece(arrived, g) ELSE <<>>
    BY DEF Header!Piece
  <1>6. Header!AllText(earlier)
    BY DEF Header!AllText
  <1>7. SomePieces(config, earlier, arrived)
    BY <1>1, <1>5 DEF SomePieces
  <1>8. Header!Payload(config, earlier, body) = Header!Payload(config, arrived, body)
          <=> source.signatureOn = "body" \/ SamePieces(config, earlier, arrived)
    BY <1>1, <1>6, <1>7, PayloadsCompared
  <1> HIDE DEF piece
  <1>9. (\A g \in Header!Range(source.signed) : piece(earlier, g) = piece(arrived, g))
          <=> \A g \in Header!Range(source.signed) :
                 piece(arrived, g) # <<>> => g \in DOMAIN earlier
    BY <1>5
  <1>10. Header!Over(source, arrived) = IF source.signatureOn = "body" THEN {}
                                 ELSE {g \in Header!Range(source.signed) : piece(arrived, g) # <<>>}
    BY DEF Header!Over, piece
  <1>11. Header!Over(source, arrived) \subseteq DOMAIN earlier
           <=> \/ source.signatureOn = "body"
               \/ \A g \in Header!Range(source.signed) : piece(earlier, g) = piece(arrived, g)
    BY <1>9, <1>10
  <1>12. Header!CheckSignature(config, arrived, body).ok
           <=> Header!Over(source, arrived) \subseteq DOMAIN earlier
    BY <1>1, <1>4, <1>8, <1>11 DEF piece, SamePieces
  <1>13. QED
    BY <1>3, <1>12 DEF Header!Reasons

LEMMA MirrorAccepts ==
    ASSUME None \notin Header!Reasons,
           NEW sources, \A h \in DOMAIN sources : Header!IsSource(sources[h]),
           NEW order, Header!IsOrder(order, sources), NEW body, Header!IsText(body),
           NEW V, Made(V, sources, order, body), NEW arrived, Arrives(V, arrived),
           NEW h \in DOMAIN sources
    PROVE  Header!Violation(arrived, h, Header!Mirror(sources)[h], body) = None
             <=> Header!Over(sources[h], arrived) \subseteq Header!Before(order, h)
  <1> DEFINE source == sources[h]
  <1>1. Header!IsSource(source)
    OBVIOUS
  <1>2. /\ DOMAIN V = DOMAIN sources /\ h \notin BadName /\ ~Header!Contains(V[h], Opaque)
        /\ \E earlier : LET value == Header!HeaderValue(source, h, earlier, body)
                       IN  /\ DOMAIN earlier = Header!Before(order, h)
                           /\ \A g \in DOMAIN earlier : earlier[g] = V[g]
                           /\ value.ok /\ V[h] = value.value
    BY DEF Made
  <1>3. PICK earlier : LET value == Header!HeaderValue(source, h, earlier, body)
                      IN  /\ DOMAIN earlier = Header!Before(order, h)
                          /\ \A g \in DOMAIN earlier : earlier[g] = V[g]
                          /\ value.ok /\ V[h] = value.value
    BY <1>2
  <1>4. /\ Header!AllText(arrived) /\ DOMAIN V \subseteq DOMAIN arrived /\ arrived[h] = V[h]
        /\ Header!Readable(arrived, h)
    BY <1>2 DEF Arrives, Header!Readable
  <1>5. Header!Violation(arrived, h, Header!Mirror(sources)[h], body)
          = Header!Unmatched(arrived, h, Header!Mirror(sources)[h], body)
    BY <1>2 DEF Header!Violation
  <1>6. CASE source.type = "signature"
    <2>1. Header!Mirror(sources)[h] = source
      BY <1>6 DEF Header!Mirror
    <2>2. /\ DOMAIN earlier \subseteq DOMAIN arrived
          /\ \A g \in DOMAIN earlier : earlier[g] = arrived[g]
      <3>1. DOMAIN earlier \subseteq DOMAIN V
        <4>1. Header!Before(order, h) \subseteq DOMAIN V
          BY <1>2 DEF Header!Before, Header!IsOrder
        <4>2. QED
          BY <1>3, <4>1
      <3>2. QED
        BY <1>3, <1>4, <3>1 DEF Arrives
    <2>3. Header!HeaderValue(source, h, earlier, body).ok
          /\ arrived[h] = Header!HeaderValue(source, h, earlier, body).value
      BY <1>3, <1>4
    <2> HIDE DEF source
    <2>4. Header!Unmatched(arrived, h, source, body) = None
            <=> Header!Over(source, arrived) \subseteq DOMAIN earlier
      BY <1>1, <1>4, <1>6, <2>2, <2>3, SignatureAccepted
    <2>5. DOMAIN earlier = Header!Before(order, h)
      BY <1>3
    <2>6. QED
      BY <1>5, <2>1, <2>4, <2>5 DEF source
  <1>7. CASE source.type # "signature"
    <2>1. Header!Mirror(sources)[h] = [source EXCEPT !.type = "equals"]
      BY <1>7 DEF Header!Mirror
    <2>2. Header!Over(source, arrived) = {}
      BY <1>7 DEF Header!Over
    <2>3. Header!Unmatched(arrived, h, [source EXCEPT !.type = "equals"], body) = None
      BY <1>1, <1>3, <1>4, <1>7, EqualAccepted
    <2>4. QED
      BY <1>5, <2>1, <2>2, <2>3
  <1>8. QED
    BY <1>6, <1>7

-----------------------------------------------------------------------------
LEMMA Smallest ==
    ASSUME NEW S, S \subseteq Nat, S # {}
    PROVE  \E m \in S : \A i \in S : m <= i
  <1> DEFINE R == OpToRel(<, Nat)
  <1>1. IsWellFoundedOn(R, Nat)
    BY NatLessThanWellFounded
  <1>2. \A x, y \in Nat : y < x => <<y, x>> \in R
    BY DEF OpToRel
  <1> HIDE DEF R
  <1>3. PICK m \in S : \A i \in S : ~(<<i, m>> \in R)
    BY <1>1, WFMin
  <1>4. \A i \in S : ~(i < m) /\ i \in Nat /\ m \in Nat
    BY <1>2, <1>3
  <1>5. QED
    BY <1>4

LEMMA FirstViolation ==
    ASSUME NEW headers, NEW rules, NEW order, Header!IsText(order), NEW body
    PROVE  Header!ValidateHeaders(headers, rules, order, body) = None
             <=> \A h \in Header!Range(order) : Header!Violation(headers, h, rules[h], body) = None
  <1> DEFINE reason(i) == Header!Violation(headers, order[i], rules[order[i]], body)
             failing == {i \in DOMAIN order : reason(i) # None}
             first == CHOOSE i \in failing : \A j \in failing : i <= j
  <1>1. DOMAIN order \subseteq Nat /\ Header!Range(order) = {order[i] : i \in DOMAIN order}
    BY DEF Header!IsText, Header!Range
  <1>2. Header!ValidateHeaders(headers, rules, order, body)
           = IF failing = {} THEN None ELSE reason(first)
    BY DEF Header!ValidateHeaders
  <1>3. failing # {} => reason(first) # None
    <2> HIDE DEF reason
    <2>1. failing \subseteq Nat
      BY <1>1
    <2>2. failing # {} => first \in failing
      BY <2>1, Smallest
    <2>3. QED
      BY <2>2
  <1>4. failing = {} <=> \A h \in Header!Range(order) :
                            Header!Violation(headers, h, rules[h], body) = None
    BY <1>1
  <1>5. QED
    BY <1>2, <1>3, <1>4

LEMMA PostAnswered ==
    ASSUME None # "QueueSaturated", NEW violation
    PROVE  LET status == Header!Answer(Header!Post, FALSE, violation)
           IN  /\ status = 201 <=> violation = None
               /\ status # 201 => Header!Logged(status, Header!DefaultAccessLog)
  <1> DEFINE status == Header!Answer(Header!Post, FALSE, violation)
  <1>1. /\ Header!Post.accept = {"*/*"} /\ Header!Post.path = "/webhook"
        /\ Header!Post.size = "small" /\ Header!Post.json = TRUE /\ Header!Post.error = None
    BY DEF Header!Post
  <1>2. Header!Accepted(Header!Post.accept)
    BY <1>1 DEF Header!Accepted
  <1>3. status = Header!WebhookStatus(violation, TRUE, None)
    BY <1>1, <1>2 DEF Header!Answer
  <1> HIDE DEF status
  <1>4. Header!WebhookStatus(violation, TRUE, None) =
           IF violation # None THEN Header!RejectionStatus(violation) ELSE 201
    BY DEF Header!WebhookStatus
  <1> DEFINE unauthorized == 401
             forbidden == 403
  <1>5. \/ Header!RejectionStatus(violation) = unauthorized
        \/ Header!RejectionStatus(violation) = forbidden
    BY DEF Header!RejectionStatus
  <1>6. /\ Header!Logged(unauthorized, Header!DefaultAccessLog)
        /\ Header!Logged(forbidden, Header!DefaultAccessLog)
        /\ unauthorized # 201 /\ forbidden # 201
    BY DEF Header!Logged, Header!DefaultAccessLog
  <1>7. CASE violation = None
    BY <1>3, <1>4, <1>7 DEF status
  <1>8. CASE violation # None
    <2> HIDE DEF unauthorized, forbidden
    <2>1. status = unauthorized \/ status = forbidden
      BY Zenon, <1>3, <1>4, <1>5, <1>8
    <2> DEFINE created == 201
    <2>2. unauthorized # created /\ forbidden # created
      BY <1>6
    <2> HIDE DEF created
    <2>3. Header!Logged(status, Header!DefaultAccessLog) /\ status # created
      BY Zenon, <1>6, <2>1, <2>2
    <2>4. QED
      BY <1>8, <2>3 DEF status, created
  <1>9. QED
    BY <1>7, <1>8

LEMMA SidesAgree ==
    ASSUME None \notin Header!Reasons \cup {"QueueSaturated"}, NEW in, Header!WellFormed(in)
    PROVE  Header!Agrees(in)
  <1> DEFINE generated == Header!GenerateHeaders(in.sources, in.order, in.body)
             V         == generated.value
             carried   == Header!Sent(in.transport, in.event, V)
             arrived   == Header!Validated(in.transport, carried)
             violation == Header!ValidateHeaders(arrived, Header!Mirror(in.sources), in.ruleOrder,
                                                 in.body)
             status    == Header!Answer(Header!Post, FALSE, violation)
             kept      == Header!Keep(in.transport, carried, {"authorization"}, DOMAIN in.sources)
             covered   == \A h \in DOMAIN in.sources : Header!Over(in.sources[h], arrived)
                                                         \subseteq Header!Before(in.order, h)
  <1> SUFFICES ASSUME generated.ok
               PROVE  /\ status = 201 <=> covered
                      /\ status # 201 => Header!Logged(status, Header!DefaultAccessLog)
                      /\ \A h \in DOMAIN in.sources \cap DOMAIN kept : kept[h] = V[h]
                      /\ DOMAIN in.sources \ {"authorization"} \subseteq DOMAIN kept
    BY DEF Header!Agrees
  <1>1. /\ in.transport \in {"http", "kafka", "nats"} /\ Header!IsEvent(in.event)
        /\ Header!IsText(in.body) /\ \A h \in DOMAIN in.sources : Header!IsSource(in.sources[h])
        /\ Header!IsOrder(in.order, in.sources) /\ Header!IsOrder(in.ruleOrder, in.sources)
    BY DEF Header!WellFormed
  <1>2. Made(V, in.sources, in.order, in.body)
    BY <1>1, HeadersMade
  <1> HIDE DEF generated
  <1>3. /\ DOMAIN V = DOMAIN in.sources /\ Header!AllText(V) /\ \A h \in DOMAIN V : h \notin BadName
        /\ \A h \in DOMAIN V : ~Header!Contains(V[h], Opaque)
    BY <1>2 DEF Made, Header!AllText
  <1> HIDE DEF V
  <1>4. IsSent(in.transport, V, carried)
    BY <1>1, <1>3, SentHeaders
  <1> HIDE DEF carried
  <1>5. Arrives(V, arrived)
    BY <1>1, <1>3, <1>4, ArrivedHeaders
  <1> HIDE DEF arrived
  <1>6. violation = None <=> covered
    <2>1. ASSUME NEW h \in DOMAIN in.sources
          PROVE  Header!Violation(arrived, h, Header!Mirror(in.sources)[h], in.body) = None
                   <=> Header!Over(in.sources[h], arrived) \subseteq Header!Before(in.order, h)
      BY <1>1, <1>2, <1>5, MirrorAccepts
    <2>2. Header!IsText(in.ruleOrder) /\ Header!Range(in.ruleOrder) = DOMAIN in.sources
      BY <1>1 DEF Header!IsOrder
    <2>3. QED
      BY <2>1, <2>2, FirstViolation
  <1> HIDE DEF violation, covered
  <1>7. /\ status = 201 <=> violation = None
        /\ status # 201 => Header!Logged(status, Header!DefaultAccessLog)
    BY PostAnswered
  <1>8. /\ \A h \in DOMAIN V \cap DOMAIN kept : kept[h] = V[h]
        /\ (DOMAIN V \cap DOMAIN in.sources) \ {"authorization"} \subseteq DOMAIN kept
    BY <1>3, <1>4, KeptHeaders
  <1> HIDE DEF status, kept
  <1>9. QED
    BY <1>3, <1>6, <1>7, <1>8

\* The rules of a source that mirror the headers of a sink accept what the sink sends
\* exactly if every header that a signature is over was generated before it; a rejection
\* is logged and a header that is kept has the configured value, for every configuration,
\* event, body, order of both maps and transport (security/header.rs:92, rule.rs:111).
THEOREM MirrorsAgree == Spec => []HeadersAgree
  <1> DEFINE Inv == part = "headers" => input \in HeaderInputs
  <1>1. Init => Inv
    BY DEF Init
  <1>2. Inv /\ [Next]_vars => Inv'
    BY DEF Next, ScanNext, AckedNext, RowsNext, FetchNext, vars
  <1>3. Inv => HeadersAgree
    BY HeadersAssumption, SidesAgree DEF HeadersAgree
  <1>4. QED
    BY <1>1, <1>2, <1>3, PTL DEF Spec

-----------------------------------------------------------------------------
\* Polls and brokers. A function is not None.

IsFunction(f) == f = [x \in DOMAIN f |-> f[x]]

\* What a sink sends is what the source reads, and what the user sets wins.
LEMMA BrokersAgree ==
    ASSUME NEW config, NEW event, NEW base, NEW about, NEW valid, event.payload # None
    PROVE  Record!BrokerAgrees(config, event, base, about, valid)
  <1> DEFINE kafka == Record!KafkaEvents(base, Record!KafkaMessage(config, event), about, valid)
             nats  == Record!NatsEvents(base, Record!NatsMessage(event), about, valid)
  <1>1. ASSUME event.payload \in valid
        PROVE  Len(kafka) = 1 /\ kafka[1].body = event.payload /\ nats[1].body = event.payload
    BY <1>1 DEF Record!KafkaEvents, Record!KafkaMessage, Record!NatsEvents, Record!NatsMessage,
                Record!MessageEvent, Record!ParseJsonOrString
  <1>2. ASSUME NEW k \in DOMAIN config.rdkafka, NEW own
        PROVE  Record!Settings(config.rdkafka, own)[k] = config.rdkafka[k]
    BY DEF Record!Settings
  <1>3. ASSUME NEW k \in DOMAIN config.rdkafka
        PROVE  /\ Record!ProducerSettings(config)[k] = config.rdkafka[k]
               /\ Record!ConsumerSettings(config)[k] = config.rdkafka[k]
    BY <1>2 DEF Record!ProducerSettings, Record!ConsumerSettings
  <1>4. QED
    BY <1>1, <1>3 DEF Record!BrokerAgrees

\* A field of an object is found.
LEMMA FieldFound ==
    ASSUME NEW f, NEW k \in DOMAIN f, ~IsFunction(None)
    PROVE  Poll!Get([obj |-> f], k) = f[k]
  BY DEF Poll!Get, Poll!Is, IsFunction

\* One that is not there is null.
LEMMA FieldAbsent ==
    ASSUME NEW f, NEW k, k \notin DOMAIN f
    PROVE  Poll!Get([obj |-> f], k) = None
  BY DEF Poll!Get, Poll!Is

\* What is put over a map is found.
LEMMA PutOver ==
    ASSUME NEW f, NEW g, NEW k, k \in DOMAIN g
    PROVE  k \in DOMAIN Poll!Put(f, g) /\ Poll!Put(f, g)[k] = g[k]
  BY DEF Poll!Put

\* What it does not cover stays.
LEMMA PutUnder ==
    ASSUME NEW f, NEW g, NEW k, k \in DOMAIN f, k \notin DOMAIN g
    PROVE  k \in DOMAIN Poll!Put(f, g) /\ Poll!Put(f, g)[k] = f[k]
  BY DEF Poll!Put

\* Each request of an answer carries its state.
LEMMA TasksMade ==
    ASSUME NEW program, NEW first, NEW depth, Poll!DriverTasks(program, first, depth).ok,
           NEW i \in DOMAIN Poll!DriverTasks(program, first, depth).tasks
    PROVE  LET task == Poll!DriverTasks(program, first, depth).tasks[i]
           IN  /\ task.state = Poll!Get(program[first], "state")
               /\ \E asked : task.spec = Poll!ParseRequestSpec(asked)
  <1> DEFINE out == Poll!Execute(program, first)
  <1>1. out.ok
    BY DEF Poll!DriverTasks
  <1>2. /\ out.state = Poll!Get(program[first], "state")
        /\ \A j \in DOMAIN out.requests : \E asked : out.requests[j] = Poll!ParseRequestSpec(asked)
    BY <1>1 DEF Poll!Execute
  <1>3. i \in DOMAIN out.requests
    BY <1>1 DEF Poll!DriverTasks
  <1>4. Poll!DriverTasks(program, first, depth).tasks[i]
          = [spec |-> out.requests[i], state |-> out.state, depth |-> depth]
    BY <1>1, <1>3 DEF Poll!DriverTasks
  <1> HIDE DEF out
  <1>5. QED
    BY <1>2, <1>3, <1>4

\* A response is emitted or fed back, whatever the word.
LEMMA RouteKnown ==
    ASSUME NEW asked
    PROVE  LET route == Poll!ParseRequestSpec(asked).route
           IN  Poll!Emits(route) \/ Poll!FeedsBack(route)
  <1>1. \E word : Poll!ParseRequestSpec(asked).route = Poll!Route(word)
    BY DEF Poll!ParseRequestSpec
  <1>2. QED
    BY <1>1 DEF Poll!Route, Poll!Emits, Poll!FeedsBack, Poll!DefaultRoute

\* From one invocation of a driver to the next, and to the events.
LEMMA TurnsAgree ==
    ASSUME ~IsFunction(None), NEW config, NEW window, NEW state, NEW program, NEW depth,
           NEW answer, NEW parsed
    PROVE  Poll!TurnAgrees(config, window, state, program, depth, answer, parsed)
  <1> DEFINE first == Poll!DriverInput(config.metadata, window, state, None, None)
             turn  == Poll!DriverTasks(program, first, depth)
             given == Poll!Get(program[first], "state")
             Again(task)  == Poll!DriverInput(config.metadata, window, task.state, task.spec,
                                              answer)
             Events(task) == Poll!EmitResponse(config, window, task, answer, parsed)
             About(task)  == Poll!EventMetadata(config.metadata, window, task, answer)
  <1>1. ASSUME NEW task, task.spec # None
        PROVE  /\ Poll!Get(Again(task), "state") = task.state
               /\ Poll!Get(Poll!Get(Again(task), "request"), "url") = [str |-> task.spec.url]
    <2> DEFINE asked == [url     |-> [str |-> task.spec.url],
                         method  |-> [str |-> task.spec.method],
                         headers |-> Poll!Strings(task.spec.headers)]
               told  == Again(task).obj
    <2>1. /\ Again(task) = [obj |-> told] /\ {"state", "request"} \subseteq DOMAIN told
          /\ told.state = task.state /\ told.request = [obj |-> asked]
      BY <1>1 DEF Poll!DriverInput
    <2>2. "url" \in DOMAIN asked /\ asked.url = [str |-> task.spec.url]
      OBVIOUS
    <2> HIDE DEF asked, told, Again
    <2>3. Poll!Get([obj |-> asked], "url") = asked["url"]
      BY <2>2, FieldFound
    <2>4. /\ Poll!Get([obj |-> told], "state") = told["state"]
          /\ Poll!Get([obj |-> told], "request") = told["request"]
      BY <2>1, FieldFound
    <2>5. QED
      BY <2>1, <2>2, <2>3, <2>4
  <1>2. ASSUME NEW task
        PROVE  LET polled == Poll!Get(About(task), "http_polling")
               IN  /\ Poll!Get(polled, "state") = task.state
                   /\ Poll!Get(polled, "url") = [str |-> task.spec.url]
                   /\ \A k \in {"ts_after", "ts_before"} :
                         Poll!Get(About(task), k) = [str |-> window[k]]
    <2> DEFINE plain == [url    |-> [str |-> task.spec.url],
                         method |-> [str |-> task.spec.method],
                         status |-> [num |-> answer.status]]
               full  == IF task.state = None THEN plain
                        ELSE Poll!Put(plain, [state |-> task.state])
               own   == [http_polling |-> [obj |-> full]]
               base  == Poll!BaseMetadata(config.metadata, window)
    <2>1. About(task) = [obj |-> Poll!Put(base, own)]
      BY DEF Poll!EventMetadata
    <2>2. /\ "url" \in DOMAIN full /\ full["url"] = [str |-> task.spec.url]
          /\ task.state = None => "state" \notin DOMAIN full
          /\ task.state # None => "state" \in DOMAIN full /\ full["state"] = task.state
      <3>1. "url" \in DOMAIN plain /\ plain["url"] = [str |-> task.spec.url]
            /\ "state" \notin DOMAIN plain
        OBVIOUS
      <3> DEFINE s == [state |-> task.state]
      <3>2. DOMAIN s = {"state"} /\ s["state"] = task.state
        OBVIOUS
      <3> HIDE DEF plain, s
      <3>3. /\ "url" \in DOMAIN Poll!Put(plain, s) /\ Poll!Put(plain, s)["url"] = plain["url"]
            /\ "state" \in DOMAIN Poll!Put(plain, s) /\ Poll!Put(plain, s)["state"] = task.state
        BY <3>1, <3>2, PutOver, PutUnder
      <3>4. QED
        BY <3>1, <3>3 DEF s
    <2>3. /\ DOMAIN own = {"http_polling"} /\ own["http_polling"] = [obj |-> full]
      OBVIOUS
    <2>4. \A k \in {"ts_after", "ts_before"} : k \in DOMAIN base /\ base[k] = [str |-> window[k]]
      <3> DEFINE w == Poll!WindowMetadata(window)
      <3>1. DOMAIN w = {"ts_after", "ts_before"}
            /\ \A k \in {"ts_after", "ts_before"} : w[k] = [str |-> window[k]]
        BY DEF Poll!WindowMetadata
      <3>2. \E f : base = Poll!Put(f, w)
        BY DEF Poll!BaseMetadata
      <3> HIDE DEF w, base
      <3>3. QED
        BY <3>1, <3>2, PutOver
    <2> HIDE DEF base, own, full, About
    <2>5. /\ "http_polling" \in DOMAIN Poll!Put(base, own)
          /\ Poll!Put(base, own)["http_polling"] = [obj |-> full]
          /\ \A k \in {"ts_after", "ts_before"} :
                k \in DOMAIN Poll!Put(base, own) /\ Poll!Put(base, own)[k] = [str |-> window[k]]
      <3>1. ASSUME NEW k \in {"ts_after", "ts_before"}
            PROVE  k \in DOMAIN Poll!Put(base, own) /\ Poll!Put(base, own)[k] = [str |-> window[k]]
        <4>1. k \in DOMAIN base /\ k \notin DOMAIN own
          BY <2>3, <2>4
        <4>2. QED
          BY <2>4, <4>1, PutUnder
      <3>2. QED
        BY <2>3, <3>1, PutOver
    <2>6. Poll!Get(About(task), "http_polling") = [obj |-> full]
      BY <2>1, <2>5, FieldFound
    <2>7. \A k \in {"ts_after", "ts_before"} : Poll!Get(About(task), k) = [str |-> window[k]]
      BY <2>1, <2>5, FieldFound
    <2>8. Poll!Get([obj |-> full], "url") = [str |-> task.spec.url]
      BY <2>2, FieldFound
    <2>9. Poll!Get([obj |-> full], "state") = task.state
      BY <2>2, FieldFound, FieldAbsent
    <2>10. QED
      BY <2>6, <2>7, <2>8, <2>9
  <1>3. ASSUME NEW task, NEW j \in DOMAIN Events(task)
        PROVE  /\ Events(task)[j].metadata = About(task)
               /\ DOMAIN Events(task)[j].headers \subseteq config.keep
    <2> DEFINE bodies == parsed[IF task.spec.parser # None THEN task.spec.parser
                                ELSE config.parser].bodies
               kept == {h \in DOMAIN answer.headers : h \in config.keep}
               all == [n \in DOMAIN bodies |->
                          [body |-> bodies[n], metadata |-> About(task),
                           headers |-> [h \in kept |-> answer.headers[h]]]]
    <2>1. Events(task) = <<>> \/ Events(task) = all
      BY DEF Poll!EmitResponse
    <2> HIDE DEF Events, About, bodies, all
    <2>2. Events(task) = all
      BY <1>3, <2>1
    <2>3. j \in DOMAIN bodies
      BY <1>3, <2>2 DEF all
    <2>4. all[j].metadata = About(task) /\ DOMAIN all[j].headers = kept
      BY <2>3 DEF all
    <2>5. QED
      BY <2>2, <2>4
  <1>4. ASSUME NEW asked PROVE Poll!ParseRequestSpec(asked) # None
    BY DEF Poll!ParseRequestSpec, IsFunction
  <1>5. ASSUME turn.ok, NEW i \in DOMAIN turn.tasks
        PROVE  LET task == turn.tasks[i]
               IN  /\ task.state = given /\ task.spec # None
                   /\ Poll!Emits(task.spec.route) \/ Poll!FeedsBack(task.spec.route)
    BY <1>4, <1>5, TasksMade, RouteKnown
  <1>6. ASSUME turn.ok, NEW i \in DOMAIN turn.tasks
        PROVE  LET task == turn.tasks[i]
               IN  /\ Poll!Get(Again(task), "state") = given
                   /\ Poll!Get(Poll!Get(Again(task), "request"), "url") = [str |-> task.spec.url]
                   /\ Poll!Emits(task.spec.route) \/ Poll!FeedsBack(task.spec.route)
                   /\ \A j \in DOMAIN Events(task) :
                         LET polled == Poll!Get(Events(task)[j].metadata, "http_polling")
                         IN  /\ Poll!Get(polled, "state") = given
                             /\ Poll!Get(polled, "url") = [str |-> task.spec.url]
                             /\ \A k \in {"ts_after", "ts_before"} :
                                   Poll!Get(Events(task)[j].metadata, k) = [str |-> window[k]]
                             /\ DOMAIN Events(task)[j].headers \subseteq config.keep
    <2> DEFINE task == turn.tasks[i]
    <2>1. /\ task.state = given /\ task.spec # None
          /\ Poll!Emits(task.spec.route) \/ Poll!FeedsBack(task.spec.route)
      BY <1>5, <1>6
    <2> HIDE DEF task, Events, About, Again, given
    <2>2. /\ Poll!Get(Again(task), "state") = task.state
          /\ Poll!Get(Poll!Get(Again(task), "request"), "url") = [str |-> task.spec.url]
      BY <1>1, <2>1
    <2>3. ASSUME NEW j \in DOMAIN Events(task)
          PROVE  LET polled == Poll!Get(Events(task)[j].metadata, "http_polling")
                 IN  /\ Poll!Get(polled, "state") = given
                     /\ Poll!Get(polled, "url") = [str |-> task.spec.url]
                     /\ \A k \in {"ts_after", "ts_before"} :
                           Poll!Get(Events(task)[j].metadata, k) = [str |-> window[k]]
                     /\ DOMAIN Events(task)[j].headers \subseteq config.keep
      BY <1>2, <1>3, <2>1
    <2>4. QED
      BY <2>1, <2>2, <2>3 DEF task
  <1>7. QED
    BY <1>6 DEF Poll!TurnAgrees

-----------------------------------------------------------------------------
\* Log records.

LEMMA OutcomesAgree ==
    ASSUME NEW event, NEW v, v # None,
           v \in {Record!CicdResult(Record!Outcome(event)), Record!SuiteStatus(event),
                  Record!CaseStatus(event)}
    PROVE  /\ v \in Record!Failing => Record!IsFailure(event)
           /\ v \in {"success", "pass", "cancellation", "aborted"} => ~Record!IsFailure(event)
  <1> DEFINE outcome == Record!Outcome(event)
  <1>1. CASE v = Record!CicdResult(outcome)
    <2> DEFINE results == [success |-> "success", failure |-> "failure", error |-> "error",
                         cancel |-> "cancellation"]
    <2>1. outcome \in DOMAIN results /\ v = results[outcome]
      BY <1>1 DEF Record!CicdResult, Record!Case
    <2>2. outcome \in {"success", "failure", "error", "cancel"}
      BY <2>1
    <2>3. QED
      BY <2>1, <2>2 DEF Record!Failing, Record!IsFailure
  <1>2. CASE v = Record!SuiteStatus(event)
    <2> HIDE DEF outcome
    <2>1. CASE v = "in_progress"
      BY <2>1 DEF Record!Failing
    <2>2. CASE v # "in_progress"
      <3>1. v = CASE outcome \in {"success", "pass"} -> "success"
                  [] Record!IsFailure(event)         -> "failure"
                  [] outcome = "cancel"              -> "aborted"
                  [] OTHER                           -> None
        BY <1>2, <2>2 DEF Record!SuiteStatus, outcome
      <3>2. QED
        BY <3>1 DEF Record!Failing, Record!IsFailure, outcome
    <2>3. QED
      BY <2>1, <2>2
  <1>3. CASE v = Record!CaseStatus(event)
    <2>1. v = CASE outcome \in {"success", "pass"} -> "pass"
                [] Record!IsFailure(event)         -> "fail"
                [] OTHER                           -> None
      BY <1>3 DEF Record!CaseStatus
    <2>2. QED
      BY <2>1 DEF Record!Failing, Record!IsFailure
  <1>4. QED
    BY <1>1, <1>2, <1>3

\* An attribute result or status comes from one of the three tables.
LEMMA SpecificResults ==
    ASSUME NEW event, NEW k \in {"result", "status"}, k \in DOMAIN Record!SemconvAttributes(event)
    PROVE  Record!SemconvAttributes(event)[k] \in
               {Record!CicdResult(Record!Outcome(event)), Record!SuiteStatus(event),
                Record!CaseStatus(event)}
  <1> DEFINE subject == Record!Subject(event)
  <1>1. CASE subject \in {"pipelinerun", "taskrun"}
    BY <1>1 DEF Record!SemconvAttributes
  <1>2. CASE subject \in {"testsuiterun", "testcaserun"}
    BY <1>2 DEF Record!SemconvAttributes
  <1>3. CASE subject \in {"change", "branch", "repository", "service", "environment"}
    BY <1>3 DEF Record!SemconvAttributes
  <1>4. CASE subject \notin {"pipelinerun", "taskrun", "testsuiterun", "testcaserun", "change",
                             "branch", "repository", "service", "environment"}
    BY <1>4 DEF Record!SemconvAttributes
  <1>5. QED
    BY <1>1, <1>2, <1>3, <1>4

\* An attribute never contradicts the record.
LEMMA RecordsAgree ==
    ASSUME NEW event, event.id # None, event.type # None
    PROVE  Record!LogRecordAgrees(event)
  <1> DEFINE general == [event_id       |-> event.id,
                         event_type     |-> event.type,
                         event_source   |-> event.source,
                         subject_id     |-> event.subjectId,
                         subject_source |-> event.subjectSource,
                         subject_type   |-> Record!Subject(event),
                         predicate      |-> Record!Predicate(event)]
             specific == Record!SemconvAttributes(event)
             both == [k \in DOMAIN general \cup DOMAIN specific |->
                         IF k \in DOMAIN general THEN general[k] ELSE specific[k]]
             log == Record!LogRecord(event)
  <1>1. log.attributes = Record!Present(both) /\ log.severity = Record!Severity(event)
    BY DEF Record!LogRecord, Record!Attributes
  <1>2. /\ DOMAIN general \cap {"result", "status"} = {}
        /\ "event_id" \in DOMAIN general /\ general["event_id"] = event.id
        /\ "event_type" \in DOMAIN general /\ general["event_type"] = event.type
    OBVIOUS
  <1> HIDE DEF general, specific, log
  <1>3. \A k : k \in DOMAIN log.attributes <=> k \in DOMAIN both /\ both[k] # None
    BY <1>1 DEF Record!Present
  <1>4. \A k \in DOMAIN log.attributes : log.attributes[k] = both[k] /\ log.attributes[k] # None
    BY <1>1, <1>3 DEF Record!Present
  <1>5. /\ log.attributes["event_id"] = event.id
        /\ log.attributes["event_type"] = event.type
    BY <1>2, <1>3, <1>4
  <1>6. ASSUME NEW k \in DOMAIN log.attributes \cap {"result", "status"}
        PROVE  /\ log.attributes[k] \in Record!Failing => Record!IsFailure(event)
               /\ log.attributes[k] \in {"success", "pass", "cancellation", "aborted"} =>
                     ~Record!IsFailure(event)
    <2>1. k \in DOMAIN specific /\ log.attributes[k] = specific[k]
      BY <1>2, <1>3, <1>4
    <2>2. specific[k] \in {Record!CicdResult(Record!Outcome(event)), Record!SuiteStatus(event),
                           Record!CaseStatus(event)}
      BY <2>1, SpecificResults DEF specific
    <2>3. QED
      BY <1>4, <2>1, <2>2, OutcomesAgree
  <1>7. Record!Severity(event) = IF Record!IsFailure(event) THEN "WARN" ELSE "INFO"
    BY DEF Record!Severity
  <1>8. QED
    BY <1>1, <1>4, <1>5, <1>6, <1>7 DEF Record!LogRecordAgrees, log

-----------------------------------------------------------------------------
\* One id per event.

\* The body of an event before its id is sanitised.
Completed(event, now) ==
    Package!SetIdZeroOrMissingToCid(
        Package!SetSourceIfMissing(Package!SetTimestampIfMissing(event.body, now), event.metadata))

Time(event, now) == IF event.body.timestamp = None THEN now ELSE event.body.timestamp
From(event) == IF event.body.source = None THEN event.metadata.source ELSE event.body.source
Bare(time, from, rest) == [id |-> None, timestamp |-> time, source |-> from, rest |-> rest]
Whole(id, time, from, rest) ==
    [id |-> IF id \in {None, Zero} THEN Package!Hash(Bare(time, from, rest)) ELSE id,
     timestamp |-> time, source |-> from, rest |-> rest]

\* What is set when the body is completed.
LEMMA CompletedBody ==
    ASSUME NEW event, NEW now, Package!IsBody(event.body)
    PROVE  Completed(event, now)
             = Whole(event.body.id, Time(event, now), From(event), event.body.rest)
  <1> DEFINE body == event.body
             time == Time(event, now)
             from == From(event)
             timed == [id |-> body.id, timestamp |-> time, source |-> body.source,
                       rest |-> body.rest]
             whole == [id |-> body.id, timestamp |-> time, source |-> from, rest |-> body.rest]
             bare  == Bare(time, from, body.rest)
  <1>1. Package!SetTimestampIfMissing(body, now) = timed
    <2>1. body = [id |-> body.id, timestamp |-> body.timestamp, source |-> body.source,
                  rest |-> body.rest]
      BY DEF Package!IsBody
    <2>2. QED
      BY <2>1 DEF Package!SetTimestampIfMissing, Time
  <1>2. Package!SetSourceIfMissing(timed, event.metadata) = whole
    BY DEF Package!SetSourceIfMissing, From
  <1>3. Package!SetIdZeroOrMissingToCid(whole) =
            IF body.id \in {None, Zero} THEN [whole EXCEPT !.id = Package!Hash(bare)] ELSE whole
    <2>1. [whole EXCEPT !.id = None] = bare
      BY DEF Bare
    <2>2. whole.id = body.id
      OBVIOUS
    <2> HIDE DEF whole, bare
    <2>3. QED
      BY <2>1, <2>2 DEF Package!SetIdZeroOrMissingToCid
  <1>4. Completed(event, now) =
            [whole EXCEPT !.id = IF body.id \in {None, Zero} THEN Package!Hash(bare) ELSE @]
    BY <1>1, <1>2, <1>3 DEF Completed
  <1> HIDE DEF time, from, bare
  <1>5. Completed(event, now) =
            [id |-> IF body.id \in {None, Zero} THEN Package!Hash(bare) ELSE body.id,
             timestamp |-> time, source |-> from, rest |-> body.rest]
    BY <1>4
  <1>6. QED
    BY <1>5 DEF Whole, time, from, bare

\* A whole body has an id, and it is the same however it was left out.
LEMMA WholeBody ==
    ASSUME NEW id, NEW time, NEW from, NEW rest, ~IsFunction(None), ~IsFunction(Zero)
    PROVE  LET w == Whole(id, time, from, rest)
           IN  /\ Package!IsBody(w) /\ w.id \notin {None, Zero}
               /\ w.timestamp = time /\ w.source = from /\ w.rest = rest
               /\ id \notin {None, Zero} => w.id = id
  <1>1. Package!Hash(Bare(time, from, rest)) \notin {None, Zero}
    <2>1. \A b : Package!Hash(b) \notin {None, Zero}
      BY DEF Package!Hash, IsFunction
    <2>2. QED
      BY <2>1
  <1>2. QED
    BY <1>1 DEF Whole, Package!IsBody

\* An id that was sanitised stays as it is.
LEMMA SanitizedOnce ==
    ASSUME NEW id, id \notin {None, Zero}
    PROVE  /\ Package!SanitizeId(id) \notin {None, Zero}
           /\ Package!SanitizeId(Package!SanitizeId(id)) = Package!SanitizeId(id)
  BY EventsAssumption DEF EventsAssumption, Package!SanitizeId

\* An event is made of the completed body if it has a source.
LEMMA Tried ==
    ASSUME NEW event, NEW now
    PROVE  LET done == Completed(event, now)
           IN  Package!TryFrom(event, now) =
                  IF done.source = None THEN [ok |-> FALSE]
                  ELSE [ok |-> TRUE, body |-> [done EXCEPT !.id = Package!SanitizeId(done.id)]]
  BY Zenon DEF Completed, Package!TryFrom

\* Two events whose completed bodies are the same are the same.
LEMMA SameMade ==
    ASSUME NEW e, NEW f, NEW now, NEW then, Completed(e, now) = Completed(f, then)
    PROVE  Package!TryFrom(e, now) = Package!TryFrom(f, then)
  BY Tried

\* A body is its four fields.
LEMMA SameBody ==
    ASSUME NEW a, NEW b, Package!IsBody(a), Package!IsBody(b), a.id = b.id,
           a.timestamp = b.timestamp, a.source = b.source, a.rest = b.rest
    PROVE  a = b
  BY DEF Package!IsBody

\* An event sent on stays the same, at any time.
LEMMA EventsKept ==
    ASSUME NEW event, NEW headers, NEW now, NEW later, now # None, later # None,
           DOMAIN event = {"body", "headers", "metadata"}, Package!IsBody(event.body),
           ~IsFunction(None), ~IsFunction(Zero)
    PROVE  Package!OneIdPerEvent(event, headers, now, later)
  <1> DEFINE made == Package!TryFrom(event, now)
             done == Completed(event, now)
             With(id) == [event EXCEPT !.body.id = id]
  <1> SUFFICES ASSUME made.ok
               PROVE  /\ Package!TryFrom(Package!MessageToEvent(
                              [body |-> made.body, headers |-> headers]), later) = made
                      /\ Package!TryFrom(With(None), now) = Package!TryFrom(With(Zero), now)
                      /\ event.body.timestamp # None => Package!TryFrom(event, later) = made
    BY DEF Package!OneIdPerEvent
  <1>1. /\ Package!IsBody(done) /\ done.timestamp # None /\ done.id \notin {None, Zero}
    <2>1. Time(event, now) # None
      BY DEF Time
    <2> HIDE DEF done
    <2>2. done = Whole(event.body.id, Time(event, now), From(event), event.body.rest)
      BY CompletedBody DEF done
    <2>3. QED
      BY <2>1, <2>2, WholeBody
  <1>2. /\ done.source # None
        /\ made = [ok |-> TRUE, body |-> [done EXCEPT !.id = Package!SanitizeId(done.id)]]
    <2>1. made = IF done.source = None THEN [ok |-> FALSE]
                 ELSE [ok |-> TRUE, body |-> [done EXCEPT !.id = Package!SanitizeId(done.id)]]
      BY Tried
    <2>2. done.source # None
      <3> HIDE DEF made, done
      <3>1. SUFFICES ASSUME done.source = None PROVE FALSE
        OBVIOUS
      <3>2. made = [ok |-> FALSE]
        BY <2>1, <3>1
      <3>3. QED
        BY <3>2
    <2>3. QED
      BY <2>1, <2>2
  <1>3. LET b == made.body
        IN  /\ Package!IsBody(b) /\ b.id = Package!SanitizeId(done.id)
            /\ b.timestamp = done.timestamp /\ b.source = done.source /\ b.rest = done.rest
    <2> HIDE DEF made, done
    <2>1. done = [id |-> done.id, timestamp |-> done.timestamp, source |-> done.source,
                  rest |-> done.rest]
      BY <1>1 DEF Package!IsBody
    <2>2. made.body = [id |-> Package!SanitizeId(done.id), timestamp |-> done.timestamp,
                       source |-> done.source, rest |-> done.rest]
      BY <1>2, <2>1
    <2>3. QED
      BY <2>2 DEF Package!IsBody
  <1>4. Package!TryFrom(Package!MessageToEvent([body |-> made.body, headers |-> headers]), later)
          = made
    <2> DEFINE passed == Package!MessageToEvent([body |-> made.body, headers |-> headers])
               anew == Completed(passed, later)
    <2>1. passed.body = made.body
      BY DEF Package!MessageToEvent
    <2> HIDE DEF made, done, passed
    <2>2. Package!SanitizeId(done.id) \notin {None, Zero}
      BY <1>1, SanitizedOnce
    <2>3. /\ Package!IsBody(anew) /\ anew.timestamp = made.body.timestamp
          /\ anew.source = made.body.source /\ anew.rest = made.body.rest
          /\ anew.id = made.body.id
      <3>1. /\ passed.body.id \notin {None, Zero} /\ passed.body.timestamp # None
            /\ passed.body.source # None
            /\ Package!IsBody(passed.body)
        BY <1>1, <1>2, <1>3, <2>1, <2>2
      <3>2. Time(passed, later) = passed.body.timestamp /\ From(passed) = passed.body.source
        BY <3>1 DEF Time, From
      <3> HIDE DEF anew
      <3>3. anew = Whole(passed.body.id, passed.body.timestamp, passed.body.source,
                         passed.body.rest)
        BY <3>1, <3>2, CompletedBody DEF anew
      <3>4. QED
        BY <2>1, <3>1, <3>3, WholeBody
    <2>4. anew = made.body
      <3> HIDE DEF anew
      <3>1. QED
        BY <1>3, <2>3, SameBody
    <2>5. [made.body EXCEPT !.id = Package!SanitizeId(made.body.id)] = made.body
      <3>1. Package!SanitizeId(made.body.id) = made.body.id
        BY <1>1, <1>3, SanitizedOnce
      <3>2. made.body = [id |-> made.body.id, timestamp |-> made.body.timestamp,
                         source |-> made.body.source, rest |-> made.body.rest]
        BY <1>3 DEF Package!IsBody
      <3>3. QED
        BY <3>1, <3>2
    <2>6. made = [ok |-> TRUE, body |-> made.body]
      BY <1>2
    <2>7. anew.source # None
      BY <1>2, <1>3, <2>4
    <2>8. Package!TryFrom(passed, later) =
              [ok |-> TRUE, body |-> [anew EXCEPT !.id = Package!SanitizeId(anew.id)]]
      BY <2>7, Tried
    <2> HIDE DEF anew
    <2>9. QED
      BY <2>4, <2>5, <2>6, <2>8 DEF passed
  <1>5. Package!TryFrom(With(None), now) = Package!TryFrom(With(Zero), now)
    <2>1. \A id : /\ With(id).body = [id |-> id, timestamp |-> event.body.timestamp,
                                      source |-> event.body.source, rest |-> event.body.rest]
                  /\ With(id).metadata = event.metadata
      <3> TAKE id
      <3>1. event.body = [id |-> event.body.id, timestamp |-> event.body.timestamp,
                          source |-> event.body.source, rest |-> event.body.rest]
        BY DEF Package!IsBody
      <3>2. With(id).body = [event.body EXCEPT !.id = id] /\ With(id).metadata = event.metadata
        OBVIOUS
      <3> HIDE DEF With
      <3>3. QED
        BY <3>1, <3>2
    <2> HIDE DEF With, made, done
    <2>2. Package!IsBody(With(None).body) /\ Package!IsBody(With(Zero).body)
      <3>1. \A i, s, f, r : Package!IsBody([id |-> i, timestamp |-> s, source |-> f, rest |-> r])
        BY DEF Package!IsBody
      <3>2. QED
        BY <2>1, <3>1
    <2>3. /\ With(None).body.id = None /\ With(Zero).body.id = Zero
          /\ With(None).body.rest = event.body.rest /\ With(Zero).body.rest = event.body.rest
          /\ Time(With(None), now) = Time(event, now) /\ Time(With(Zero), now) = Time(event, now)
          /\ From(With(None)) = From(event) /\ From(With(Zero)) = From(event)
      <3>1. \A id : /\ With(id).body.id = id /\ With(id).body.rest = event.body.rest
                    /\ With(id).body.timestamp = event.body.timestamp
                    /\ With(id).body.source = event.body.source
                    /\ With(id).metadata = event.metadata
        <4> TAKE id
        <4>1. With(id).body = [id |-> id, timestamp |-> event.body.timestamp,
                               source |-> event.body.source, rest |-> event.body.rest]
              /\ With(id).metadata = event.metadata
          BY <2>1
        <4>2. QED
          BY <4>1
      <3>2. QED
        BY <3>1 DEF Time, From
    <2>4. /\ Completed(With(None), now)
               = Whole(None, Time(event, now), From(event), event.body.rest)
          /\ Completed(With(Zero), now)
               = Whole(Zero, Time(event, now), From(event), event.body.rest)
      BY <2>2, <2>3, CompletedBody
    <2>5. \A t, f, r : Whole(None, t, f, r) = Whole(Zero, t, f, r)
      BY DEF Whole
    <2>6. QED
      BY <2>4, <2>5, SameMade
  <1>6. ASSUME event.body.timestamp # None PROVE Package!TryFrom(event, later) = made
    <2>1. Time(event, later) = Time(event, now)
      BY <1>6 DEF Time
    <2>2. Completed(event, later) = Completed(event, now)
      BY <2>1, CompletedBody
    <2>3. QED
      BY <2>2, SameMade
  <1>7. QED
    BY <1>4, <1>5, <1>6

-----------------------------------------------------------------------------
\* One purl per artifact.

\* A path is its last segment behind the others.
LEMMA Segments ==
    ASSUME NEW p, Package!IsPath(p)
    PROVE  /\ Len(p) \in Nat \ {0} /\ DOMAIN p = 1..Len(p)
           /\ Package!Last(p) = p[Len(p)]
           /\ Package!Front(p) \in Seq(Package!Range(p)) /\ Len(Package!Front(p)) = Len(p) - 1
           /\ \A i \in 1..(Len(p) - 1) : Package!Front(p)[i] = p[i]
           /\ p = Package!Front(p) \o <<Package!Last(p)>>
  <1> DEFINE S == Package!Range(p)
  <1>1. p \in Seq(S) /\ p # <<>>
    BY DEF Package!IsPath
  <1> HIDE DEF S
  <1>2. Len(p) \in Nat \ {0} /\ DOMAIN p = 1..Len(p)
    BY <1>1
  <1>3. Package!Last(p) = p[Len(p)] /\ Package!Front(p) = SubSeq(p, 1, Len(p) - 1)
    BY DEF Package!Last, Package!Front
  <1>4. /\ Package!Front(p) \in Seq(S) /\ Len(Package!Front(p)) = Len(p) - 1
        /\ \A i \in 1..(Len(p) - 1) : Package!Front(p)[i] = p[i]
    BY <1>1, <1>2, <1>3
  <1>5. p = Package!Front(p) \o <<Package!Last(p)>>
    <2> DEFINE q == Package!Front(p) \o <<Package!Last(p)>>
    <2>1. <<Package!Last(p)>> \in Seq(S) /\ Len(<<Package!Last(p)>>) = 1
      BY <1>1, <1>2, <1>3
    <2>2. /\ q \in Seq(S) /\ Len(q) = Len(p)
          /\ \A i \in 1..Len(p) : q[i] = p[i]
      BY <1>1, <1>2, <1>3, <1>4, <2>1, ConcatProperties
    <2> HIDE DEF q
    <2>3. p = q
      BY <1>1, <2>2, SeqEqual
    <2>4. QED
      BY <2>3 DEF q
  <1>6. QED
    BY <1>2, <1>3, <1>4, <1>5 DEF S

\* In front of a path with text.
LEMMA Prefixed ==
    ASSUME NEW p, Package!IsPath(p), NEW T, NEW q \in Seq(T)
    PROVE  LET all == q \o p
           IN  /\ Package!IsPath(all) /\ Package!Last(all) = Package!Last(p)
               /\ Package!Front(all) = q \o Package!Front(p)
  <1> DEFINE S == Package!Range(p) \cup T
             all == q \o p
             front == q \o Package!Front(p)
  <1>1. p \in Seq(S) /\ p # <<>> /\ q \in Seq(S) /\ Package!Front(p) \in Seq(S)
        /\ Package!Last(p) \in S
    <2> DEFINE R == Package!Range(p)
    <2>1. p \in Seq(R) /\ p # <<>> /\ Package!Front(p) \in Seq(R)
      BY Segments DEF Package!IsPath
    <2>2. R \subseteq S /\ T \subseteq S
      OBVIOUS
    <2> HIDE DEF R, S
    <2>3. p[Len(p)] \in R
      BY <2>1
    <2>4. Package!Last(p) \in S
      BY <2>2, <2>3, Segments
    <2>5. \A s : (s \in Seq(R) => s \in Seq(S)) /\ (s \in Seq(T) => s \in Seq(S))
      BY <2>2
    <2>6. QED
      BY <2>1, <2>4, <2>5
  <1> HIDE DEF S
  <1>2. all \in Seq(S) /\ Len(all) = Len(q) + Len(p) /\ all # <<>> /\ Len(p) \in Nat \ {0}
        /\ Len(q) \in Nat
    BY <1>1
  <1>3. Package!IsPath(all)
    <2>1. \A i \in 1..Len(all) : all[i] \in Package!Range(all)
      BY <1>2 DEF Package!Range
    <2> HIDE DEF all
    <2>2. all \in Seq(Package!Range(all))
      <3>1. all = [i \in 1..Len(all) |-> all[i]] /\ Len(all) \in Nat
        BY <1>2
      <3>2. QED
        BY <2>1, <3>1
    <2>3. QED
      BY <1>2, <2>2 DEF Package!IsPath
  <1>4. Package!Last(all) = Package!Last(p)
    <2>1. all[Len(all)] = p[Len(p)]
      <3>1. Len(all) \in 1..(Len(q) + Len(p)) /\ ~(Len(all) <= Len(q)) /\ Len(all) - Len(q) = Len(p)
        BY <1>2
      <3>2. QED
        BY <1>1, <3>1, ConcatProperties
    <2> HIDE DEF all
    <2>2. QED
      BY <1>3, <2>1, Segments
  <1>5. Package!Front(all) = front
    <2>1. /\ Package!Front(all) = SubSeq(all, 1, Len(all) - 1)
          /\ Package!Front(p) = SubSeq(p, 1, Len(p) - 1)
      BY DEF Package!Front
    <2>2. /\ Package!Front(all) \in Seq(S) /\ Len(Package!Front(all)) = Len(all) - 1
          /\ Len(Package!Front(p)) = Len(p) - 1
      <3>1. Len(Package!Front(p)) = Len(p) - 1
        BY Segments
      <3> HIDE DEF all
      <3>2. \A i \in 1..Len(all) - 1 : all[i] \in S
        BY <1>2
      <3>3. QED
        BY <1>2, <2>1, <3>1, <3>2, SubSeqProperties
    <2>3. front \in Seq(S) /\ Len(front) = Len(q) + (Len(p) - 1)
      BY <1>1, <1>2, <2>2, ConcatProperties
    <2>4. \A i \in 1..Len(all) - 1 : Package!Front(all)[i] = front[i]
      <3> SUFFICES ASSUME NEW i \in 1..Len(all) - 1 PROVE Package!Front(all)[i] = front[i]
        OBVIOUS
      <3>1. Package!Front(all)[i] = all[i]
        BY <1>1, <1>2, <2>1
      <3>2. all[i] = IF i <= Len(q) THEN q[i] ELSE p[i - Len(q)]
        BY <1>1, <1>2, ConcatProperties
      <3>3. front[i] = IF i <= Len(q) THEN q[i] ELSE Package!Front(p)[i - Len(q)]
        BY <1>1, <1>2, <2>2, ConcatProperties
      <3>4. i > Len(q) => Package!Front(p)[i - Len(q)] = p[i - Len(q)]
        BY <1>1, <1>2, <2>1
      <3>5. QED
        BY <3>1, <3>2, <3>3, <3>4
    <2> HIDE DEF all, front
    <2>5. QED
      BY <1>2, <2>2, <2>3, <2>4, SeqEqual
  <1>6. QED
    BY <1>3, <1>4, <1>5

DigestVersion(digest) ==
    CASE digest = None -> None
      [] digest # None /\ digest.algorithm \in {"sha256", None} -> <<"@sha256", digest.hex>>
      [] OTHER -> <<"@sha256", digest.algorithm, digest.hex>>

\* Its repository is what comes before the name in the explicit path.
LEMMA PlaceKnown ==
    ASSUME NEW p, Package!IsPath(p), "docker.io" \in Dotted
    PROVE  LET repo == Package!Front(p)
           IN  /\ Package!IsPath(Package!ExplicitPath(p))
               /\ Package!Last(Package!ExplicitPath(p)) = Package!Last(p)
               /\ Package!Front(Package!ExplicitPath(p)) =
                     CASE repo = <<>> -> <<"docker.io", "library">>
                       [] repo # <<>> /\ repo[1] \notin Dotted \cup {"localhost"} ->
                            <<"docker.io">> \o repo
                       [] OTHER -> repo
  <1> DEFINE repo == Package!Front(p)
  <1>1. /\ Len(p) \in Nat \ {0} /\ repo \in Seq(Package!Range(p)) /\ Len(repo) = Len(p) - 1
        /\ \A i \in 1..(Len(p) - 1) : repo[i] = p[i]
    BY Segments
  <1>2. (repo = <<>> <=> Len(p) = 1) /\ (Len(p) > 1 => repo[1] = p[1])
    BY <1>1
  <1>3. CASE Len(p) = 1
    <2> DEFINE q == <<"docker.io", "library">>
    <2>1. Package!ExplicitPath(p) = q \o p
      BY <1>3 DEF Package!ExplicitPath
    <2>2. q \in Seq({"docker.io", "library"})
      OBVIOUS
    <2>3. q \o <<>> = q
      OBVIOUS
    <2>4. repo = <<>>
      BY <1>2, <1>3
    <2>5. /\ Package!IsPath(q \o p) /\ Package!Last(q \o p) = Package!Last(p)
          /\ Package!Front(q \o p) = q \o Package!Front(p)
      <3> HIDE DEF q
      <3>1. QED
        BY <2>2, Prefixed
    <2>6. QED
      BY <2>1, <2>3, <2>4, <2>5
  <1>4. CASE Len(p) > 1 /\ p[1] \notin Dotted \cup {"localhost"}
    <2> DEFINE q == <<"docker.io">>
    <2>1. Package!ExplicitPath(p) = q \o p
      BY <1>4 DEF Package!ExplicitPath
    <2>2. q \in Seq({"docker.io"})
      OBVIOUS
    <2>3. /\ Package!IsPath(q \o p) /\ Package!Last(q \o p) = Package!Last(p)
          /\ Package!Front(q \o p) = q \o Package!Front(p)
      <3> HIDE DEF q
      <3>1. QED
        BY <2>2, Prefixed
    <2>4. repo # <<>> /\ repo[1] \notin Dotted \cup {"localhost"}
      <3>1. Len(p) # 1
        BY <1>1, <1>4
      <3> HIDE DEF repo
      <3>2. repo[1] = p[1] /\ repo # <<>>
        BY <1>2, <1>4, <3>1
      <3>3. QED
        BY <1>4, <3>2
    <2> HIDE DEF repo
    <2>5. QED
      BY <2>1, <2>3, <2>4 DEF repo
  <1>5. CASE Len(p) # 1 /\ p[1] \in Dotted \cup {"localhost"}
    <2>1. Package!ExplicitPath(p) = p
      BY <1>5 DEF Package!ExplicitPath
    <2>2. repo # <<>> /\ repo[1] \in Dotted \cup {"localhost"}
      BY <1>1, <1>2, <1>5
    <2> HIDE DEF repo
    <2>3. QED
      BY <2>1, <2>2 DEF repo
  <1>6. QED
    BY <1>1, <1>3, <1>4, <1>5

\* A path of one segment.
LEMMA OneSegment == ASSUME NEW x PROVE Package!Front(<<x>>) = <<>> /\ Package!Last(<<x>>) = x
  BY DEF Package!Front, Package!Last

\* The purl of an image, in terms of the explicit one.
LEMMA UrlOfImage ==
    ASSUME NEW image, Package!IsImage(image), "docker.io" \in Dotted, "oci" # None
    PROVE  Package!ImageUrl(image) =
               [type |-> "oci", namespace |-> None,
                name |-> <<Package!Last(Package!ExplicitPath(image.path))>>,
                version |-> DigestVersion(image.digest),
                qualifiers |-> Package!Text([repository_url |->
                                                Package!Front(Package!ExplicitPath(image.path)),
                                             tag |-> Package!Explicit(image).tag])]
  <1> DEFINE purl == Package!ParseOciImageToPurl(image)
             place == Package!Front(Package!ExplicitPath(image.path))
             name == Package!Last(image.path)
  <1>1. Package!IsPath(image.path)
    BY DEF Package!IsImage
  <1>2. Package!Last(Package!ExplicitPath(image.path)) = name
    BY <1>1, PlaceKnown
  <1>3. purl = [type |-> "oci", namespace |-> None, name |-> <<name>>,
                version |-> DigestVersion(image.digest),
                qualifiers |-> Package!Text([repository_url |-> place,
                                             tag |-> Package!Explicit(image).tag])]
    <2> DEFINE repo == Package!Front(image.path)
    <2>1. place = CASE repo = <<>> -> <<"docker.io", "library">>
                    [] repo # <<>> /\ repo[1] \notin Dotted \cup {"localhost"} ->
                         <<"docker.io">> \o repo
                    [] OTHER -> repo
      BY <1>1, PlaceKnown
    <2> HIDE DEF place
    <2>2. QED
      BY Zenon, <2>1 DEF Package!ParseOciImageToPurl, DigestVersion, Package!Explicit
  <1>4. Package!PurlObjectToString(purl) = [ok |-> TRUE, purl |-> purl]
    <2>1. purl.type = "oci" /\ purl.name = <<name>> /\ purl.name # <<>>
      BY <1>3
    <2>2. Package!Front(purl.name) = <<>>
      BY <2>1, OneSegment
    <2> HIDE DEF purl
    <2>3. QED
      BY <2>1, <2>2 DEF Package!PurlObjectToString
  <1>5. Package!ImageUrl(image) = Package!PurlObjectToString(purl).purl
    BY DEF Package!ImageUrl, Package!PurlFromOciImage, Package!PurlToString, Package!Bytes,
           Package!Object, Package!IsBytes
  <1> HIDE DEF purl
  <1>6. Package!ImageUrl(image) = purl
    BY <1>4, <1>5
  <1>7. QED
    BY <1>2, <1>3, <1>6

\* A digest is written out in the version of the purl, sha256 without its name.
LEMMA VersionAgree ==
    ASSUME NEW a, NEW b, ~IsFunction(None),
           a # None => a = [algorithm |-> a.algorithm, hex |-> a.hex],
           b # None => b = [algorithm |-> b.algorithm, hex |-> b.hex]
    PROVE  (DigestVersion(a) = DigestVersion(b))
             <=> (Package!ExplicitDigest(a) = Package!ExplicitDigest(b))
  <1>1. \A x, y, z : <<x, y>> # None /\ <<x, y, z>> # None
    <2> SUFFICES ASSUME NEW x, NEW y, NEW z PROVE <<x, y>> # None /\ <<x, y, z>> # None
      OBVIOUS
    <2>1. IsFunction(<<x, y>>) /\ IsFunction(<<x, y, z>>)
      BY DEF IsFunction
    <2>2. QED
      BY <2>1
  <1>2. \A x, y, z : [algorithm |-> x, hex |-> y] # None
    <2> SUFFICES ASSUME NEW x, NEW y PROVE [algorithm |-> x, hex |-> y] # None
      OBVIOUS
    <2>1. IsFunction([algorithm |-> x, hex |-> y])
      BY DEF IsFunction
    <2>2. QED
      BY <2>1
  <1> DEFINE Name(d) == IF d.algorithm = None THEN "sha256" ELSE d.algorithm
  <1>3. \A d : d = [algorithm |-> d.algorithm, hex |-> d.hex] /\ d # None =>
           /\ Package!ExplicitDigest(d) = [algorithm |-> Name(d), hex |-> d.hex]
           /\ DigestVersion(d) = IF Name(d) = "sha256" THEN <<"@sha256", d.hex>>
                                 ELSE <<"@sha256", d.algorithm, d.hex>>
    <2> SUFFICES ASSUME NEW d, d = [algorithm |-> d.algorithm, hex |-> d.hex], d # None
                 PROVE  /\ Package!ExplicitDigest(d) = [algorithm |-> Name(d), hex |-> d.hex]
                        /\ DigestVersion(d) = IF Name(d) = "sha256" THEN <<"@sha256", d.hex>>
                                              ELSE <<"@sha256", d.algorithm, d.hex>>
      OBVIOUS
    <2>1. Package!ExplicitDigest(d) = [d EXCEPT !.algorithm = Name(d)]
      BY DEF Package!ExplicitDigest
    <2>2. [d EXCEPT !.algorithm = Name(d)] = [algorithm |-> Name(d), hex |-> d.hex]
      <3> HIDE DEF Name
      <3>1. QED
        OBVIOUS
    <2>3. Name(d) = "sha256" <=> d.algorithm \in {"sha256", None}
      OBVIOUS
    <2>4. QED
      BY <2>1, <2>2, <2>3 DEF DigestVersion
  <1>4. \A d : d = None => Package!ExplicitDigest(d) = None /\ DigestVersion(d) = None
    BY DEF Package!ExplicitDigest, DigestVersion
  <1>5. CASE a = None \/ b = None
    BY <1>1, <1>2, <1>3, <1>4, <1>5
  <1>6. CASE a # None /\ b # None
    <2>1. (Package!ExplicitDigest(a) = Package!ExplicitDigest(b))
            <=> Name(a) = Name(b) /\ a.hex = b.hex
      BY <1>3, <1>6
    <2>2. \A x, y, z, u, v : /\ <<x, y>> # <<x, z, u>>
                             /\ (<<x, y>> = <<x, z>>) <=> y = z
                             /\ (<<x, y, z>> = <<x, u, v>>) <=> (y = u /\ z = v)
      OBVIOUS
    <2>3. \A d : Name(d) # "sha256" => Name(d) = d.algorithm
      OBVIOUS
    <2> HIDE DEF Name
    <2>4. QED
      BY <1>3, <1>6, <2>1, <2>2, <2>3
  <1>7. QED
    BY <1>5, <1>6

\* What is null is left out of the qualifiers; all else is kept.
LEMMA TextAgree ==
    ASSUME NEW p, NEW q, NEW t, NEW u, p # None, q # None
    PROVE  (Package!Text([repository_url |-> p, tag |-> t])
              = Package!Text([repository_url |-> q, tag |-> u]))
             <=> (p = q /\ t = u)
  <1> DEFINE Q(x, y) == Package!Text([repository_url |-> x, tag |-> y])
  <1>1. \A x, y : x # None =>
           /\ Q(x, y).repository_url = x
           /\ ("tag" \in DOMAIN Q(x, y)) <=> y # None
           /\ y # None => Q(x, y).tag = y
    BY DEF Package!Text
  <1>2. p = q /\ t = u => Q(p, t) = Q(q, u)
    OBVIOUS
  <1> HIDE DEF Q
  <1>3. (Q(p, t) = Q(q, u)) <=> (p = q /\ t = u)
    BY <1>1, <1>2
  <1>4. QED
    BY <1>3 DEF Q

\* Two images have one purl exactly when they are one artifact.
LEMMA ImagesAgree ==
    ASSUME NEW a, NEW b, Package!IsImage(a), Package!IsImage(b),
           "docker.io" \in Dotted, "oci" # None, ~IsFunction(None)
    PROVE  (Package!ImageUrl(a) = Package!ImageUrl(b))
             <=> (Package!Explicit(a) = Package!Explicit(b))
  <1> DEFINE Path(i) == Package!ExplicitPath(i.path)
             Place(i) == Package!Front(Path(i))
             Name(i) == Package!Last(Path(i))
             Tag(i) == Package!Explicit(i).tag
             Qualifiers(i) == Package!Text([repository_url |-> Place(i), tag |-> Tag(i)])
  <1>1. \A i \in {a, b} : Package!IsPath(Path(i))
    BY PlaceKnown DEF Package!IsImage
  <1>2. \A i \in {a, b} : Path(i) = Place(i) \o <<Name(i)>> /\ Place(i) # None
    <2> SUFFICES ASSUME NEW i \in {a, b}
                 PROVE  Path(i) = Place(i) \o <<Name(i)>> /\ Place(i) # None
      OBVIOUS
    <2> DEFINE p == Path(i)
    <2>1. Package!IsPath(p)
      BY <1>1
    <2> HIDE DEF p
    <2>2. /\ p = Package!Front(p) \o <<Package!Last(p)>>
          /\ Package!Front(p) \in Seq(Package!Range(p))
      BY <2>1, Segments
    <2>3. IsFunction(Package!Front(p))
      BY <2>2 DEF IsFunction
    <2>4. QED
      BY <2>2, <2>3 DEF p
  <1>3. (Path(a) = Path(b)) <=> (Place(a) = Place(b) /\ Name(a) = Name(b))
    <2> HIDE DEF Path, Place, Name
    <2>1. Place(a) = Place(b) /\ Name(a) = Name(b) => Path(a) = Path(b)
      BY <1>2
    <2>2. Path(a) = Path(b) => Place(a) = Place(b) /\ Name(a) = Name(b)
      BY DEF Place, Name
    <2>3. QED
      BY <2>1, <2>2
  <1>4. (Qualifiers(a) = Qualifiers(b)) <=> (Place(a) = Place(b) /\ Tag(a) = Tag(b))
    <2>1. Place(a) # None /\ Place(b) # None
      BY <1>2
    <2> HIDE DEF Place, Tag
    <2>2. QED
      BY <2>1, TextAgree
  <1>5. (DigestVersion(a.digest) = DigestVersion(b.digest))
          <=> (Package!ExplicitDigest(a.digest) = Package!ExplicitDigest(b.digest))
    BY VersionAgree DEF Package!IsImage
  <1>6. (Package!Explicit(a) = Package!Explicit(b))
          <=> /\ Path(a) = Path(b) /\ Tag(a) = Tag(b)
              /\ Package!ExplicitDigest(a.digest) = Package!ExplicitDigest(b.digest)
    BY DEF Package!Explicit
  <1> DEFINE Purl(i) == [type |-> "oci", namespace |-> None, name |-> <<Name(i)>>,
                         version |-> DigestVersion(i.digest), qualifiers |-> Qualifiers(i)]
  <1>7. Package!ImageUrl(a) = Purl(a) /\ Package!ImageUrl(b) = Purl(b)
    BY UrlOfImage
  <1>8. (Purl(a) = Purl(b))
          <=> /\ Name(a) = Name(b) /\ DigestVersion(a.digest) = DigestVersion(b.digest)
              /\ Qualifiers(a) = Qualifiers(b)
    <2> HIDE DEF Name, Qualifiers
    <2>1. (<<Name(a)>> = <<Name(b)>>) <=> (Name(a) = Name(b))
      OBVIOUS
    <2>2. QED
      BY <2>1
  <1> HIDE DEF Path, Place, Name, Tag, Qualifiers, Purl
  <1>9. QED
    BY <1>3, <1>4, <1>5, <1>6, <1>7, <1>8

\* A chart in an OCI registry is named by its last segment.
LEMMA UrlOfChart ==
    ASSUME NEW repo, NEW chart, NEW revision, Package!IsOciRegistry(repo), "oci" # None
    PROVE  Package!ChartUrl(repo, chart, revision) =
               [type |-> "oci", namespace |-> None, name |-> <<Package!Last(chart)>>,
                version |-> revision,
                qualifiers |-> [repository_url |-> repo.path \o Package!Front(chart)]]
  <1> DEFINE purl == [type |-> "oci", namespace |-> None, name |-> <<Package!Last(chart)>>,
                      version |-> revision,
                      qualifiers |-> [repository_url |-> repo.path \o Package!Front(chart)]]
  <1>1. Package!ParseArgocdHelmToPurl(repo, chart, revision) = purl
    BY DEF Package!ParseArgocdHelmToPurl
  <1>2. Package!PurlObjectToString(purl) = [ok |-> TRUE, purl |-> purl]
    <2>1. purl.type # None /\ purl.name # <<>> /\ purl.name = <<Package!Last(chart)>>
      OBVIOUS
    <2>2. Package!Front(purl.name) = <<>>
      BY <2>1, OneSegment
    <2> HIDE DEF purl
    <2>3. QED
      BY <2>1, <2>2 DEF Package!PurlObjectToString
  <1> HIDE DEF purl
  <1>3. Package!ChartUrl(repo, chart, revision) = Package!PurlObjectToString(purl).purl
    BY <1>1 DEF Package!ChartUrl, Package!PurlFromArgoCdHelm, Package!PurlToString,
                Package!Bytes, Package!Object, Package!IsBytes
  <1>4. Package!ChartUrl(repo, chart, revision) = purl
    BY <1>2, <1>3
  <1>5. QED
    BY <1>4 DEF purl

\* It does not matter where the path of a chart is split.
LEMMA SplitsAgree ==
    ASSUME NEW repo, Package!IsRepository(repo), NEW chart, Package!IsPath(chart), NEW revision,
           Package!IsOciRegistry(repo), "oci" # None, NEW n \in 0 .. Len(chart) - 1
    PROVE  LET front == SubSeq(chart, 1, n)
               rest  == SubSeq(chart, n + 1, Len(chart))
           IN  Package!ChartUrl([repo EXCEPT !.path = @ \o front], rest, revision)
                 = Package!ChartUrl(repo, chart, revision)
  <1> DEFINE S == Package!Range(chart)
             R == Package!Range(repo.path)
             front == SubSeq(chart, 1, n)
             rest  == SubSeq(chart, n + 1, Len(chart))
             within == [repo EXCEPT !.path = @ \o front]
  <1>1. /\ chart \in Seq(S) /\ Len(chart) \in Nat \ {0}
        /\ repo.path \in Seq(R) /\ repo = [scheme |-> repo.scheme, path |-> repo.path]
    BY Segments DEF Package!IsPath, Package!IsRepository
  <1> HIDE DEF S, R
  <1>2. front \in Seq(S) /\ rest \in Seq(S) /\ Len(rest) = Len(chart) - n /\ rest # <<>>
    <2>1. \A i \in 1..Len(chart) : chart[i] \in S
      BY <1>1
    <2>2. front \in Seq(S)
      BY <1>1, <2>1, SubSeqProperties
    <2>3. rest \in Seq(S) /\ Len(rest) = Len(chart) - n
      BY <1>1, <2>1, SubSeqProperties
    <2> HIDE DEF rest, front
    <2>4. QED
      BY <1>1, <2>2, <2>3
  <1>3. chart = front \o rest
    <2>1. front \o rest = SubSeq(chart, 1, Len(chart))
      <3>1. /\ 1 \in 1 .. Len(chart) + 1 /\ n \in 1 - 1 .. Len(chart)
            /\ Len(chart) \in n .. Len(chart)
        BY <1>1
      <3>2. QED
        BY <1>1, <3>1, ConcatAdjacentSubSeq
    <2>2. SubSeq(chart, 1, Len(chart)) = chart
      BY <1>1, SubSeqFull
    <2>3. QED
      BY <2>1, <2>2
  <1>4. Package!IsPath(rest)
    <2> HIDE DEF rest
    <2>1. rest = [i \in 1..Len(rest) |-> rest[i]] /\ Len(rest) \in Nat
      BY <1>2
    <2>2. \A i \in 1..Len(rest) : rest[i] \in Package!Range(rest)
      BY <1>2 DEF Package!Range
    <2>3. QED
      BY <1>2, <2>1, <2>2 DEF Package!IsPath
  <1>5. within = [scheme |-> repo.scheme, path |-> repo.path \o front]
    <2>1. \A q : [repo EXCEPT !.path = q] = [scheme |-> repo.scheme, path |-> q]
      BY <1>1
    <2> HIDE DEF front
    <2>2. QED
      BY <2>1
  <1> HIDE DEF front, rest
  <1>6. Package!Last(chart) = Package!Last(rest)
        /\ Package!Front(chart) = front \o Package!Front(rest)
    BY <1>2, <1>3, <1>4, Prefixed
  <1>7. (repo.path \o front) \o Package!Front(rest) = repo.path \o Package!Front(chart)
    <2>1. Package!Front(rest) \in Seq(Package!Range(rest))
      BY <1>4, Segments
    <2> DEFINE U == R \cup S \cup Package!Range(rest)
    <2>2. R \subseteq U /\ S \subseteq U /\ Package!Range(rest) \subseteq U
      OBVIOUS
    <2> HIDE DEF U
    <2>3. repo.path \in Seq(U) /\ front \in Seq(U) /\ Package!Front(rest) \in Seq(U)
      BY <1>1, <1>2, <2>1, <2>2
    <2>4. (repo.path \o front) \o Package!Front(rest)
            = repo.path \o (front \o Package!Front(rest))
      <3>1. \A x, y, z \in Seq(U) : (x \o y) \o z = x \o (y \o z)
        BY ConcatAssociative
      <3>2. QED
        BY Zenon, <2>3, <3>1
    <2>5. QED
      BY <1>6, <2>4
  <1>8. Package!IsOciRegistry(within) /\ within.path = repo.path \o front
    BY <1>5 DEF Package!IsOciRegistry
  <1> HIDE DEF within
  <1>9. Package!ChartUrl(within, rest, revision) = Package!ChartUrl(repo, chart, revision)
    BY <1>6, <1>7, <1>8, UrlOfChart
  <1>10. QED
    BY <1>9 DEF within, front, rest

\* Nor whether the program splits it.
LEMMA GivenAgrees ==
    ASSUME NEW repo, Package!IsRepository(repo), NEW chart, Package!IsPath(chart), NEW revision,
           Package!IsOciRegistry(repo), "oci" # None
    PROVE  LET given == [type |-> "oci", namespace |-> None, name |-> chart, version |-> revision,
                         qualifiers |-> [repository_url |-> repo.path]]
           IN  Package!PurlToString(Package!Object(given)).purl
                 = Package!ChartUrl(repo, chart, revision)
  <1> DEFINE given == [type |-> "oci", namespace |-> None, name |-> chart, version |-> revision,
                       qualifiers |-> [repository_url |-> repo.path]]
             prefix == Package!Front(chart)
             made == [type |-> "oci", namespace |-> None, name |-> <<Package!Last(chart)>>,
                      version |-> revision, qualifiers |-> [repository_url |-> repo.path \o prefix]]
  <1>1. Package!PurlToString(Package!Object(given)) = Package!PurlObjectToString(given)
    BY DEF Package!PurlToString, Package!IsBytes, Package!Object
  <1>2. /\ chart # <<>> /\ repo.path \in Seq(Package!Range(repo.path))
        /\ chart = prefix \o <<Package!Last(chart)>>
    BY Segments DEF Package!IsPath, Package!IsRepository
  <1>3. CASE prefix = <<>>
    <2>1. chart = <<Package!Last(chart)>>
      <3> HIDE DEF prefix
      <3>1. <<>> \o <<Package!Last(chart)>> = <<Package!Last(chart)>>
        OBVIOUS
      <3>2. QED
        BY <1>2, <1>3, <3>1
    <2>2. repo.path \o prefix = repo.path
      <3> HIDE DEF prefix
      <3>1. QED
        BY <1>2, <1>3, ConcatEmptySeq
    <2>3. given = made
      <3> HIDE DEF prefix
      <3>1. QED
        BY <2>1, <2>2
    <2>4. given.type = "oci" /\ given.name = chart
      OBVIOUS
    <2> HIDE DEF given
    <2>5. Package!PurlObjectToString(given) = [ok |-> TRUE, purl |-> given]
      BY <1>2, <1>3, <2>4 DEF Package!PurlObjectToString
    <2>6. Package!ChartUrl(repo, chart, revision) = made
      BY UrlOfChart
    <2> HIDE DEF made
    <2>7. Package!PurlToString(Package!Object(given)).purl
            = Package!ChartUrl(repo, chart, revision)
      BY <1>1, <2>3, <2>5, <2>6
    <2>8. QED
      BY <2>7 DEF given
  <1>4. CASE prefix # <<>>
    <2>1. /\ given.type = "oci" /\ given.name = chart
          /\ given.qualifiers = [repository_url |-> repo.path]
          /\ given.qualifiers.repository_url = repo.path
          /\ "repository_url" \in DOMAIN given.qualifiers
      OBVIOUS
    <2>2. Package!Located(given.qualifiers, repo.path \o prefix)
            = [repository_url |-> repo.path \o prefix]
      <3> DEFINE q == [repository_url |-> repo.path]
      <3>1. DOMAIN q \cup {"repository_url"} = {"repository_url"}
        OBVIOUS
      <3> HIDE DEF q
      <3>2. \A x : Package!Located(q, x) = [repository_url |-> x]
        BY <3>1 DEF Package!Located
      <3> HIDE DEF given, prefix
      <3>3. QED
        BY <2>1, <3>2 DEF q
    <2>3. [given EXCEPT !.name = <<Package!Last(chart)>>,
                        !.qualifiers = [repository_url |-> repo.path \o prefix]] = made
      <3>1. \A x, y : [given EXCEPT !.name = x, !.qualifiers = y] =
                         [type |-> "oci", namespace |-> None, name |-> x, version |-> revision,
                          qualifiers |-> y]
        <4> SUFFICES ASSUME NEW x, NEW y
                     PROVE  [given EXCEPT !.name = x, !.qualifiers = y] =
                              [type |-> "oci", namespace |-> None, name |-> x,
                               version |-> revision, qualifiers |-> y]
          OBVIOUS
        <4> DEFINE named == [type |-> "oci", namespace |-> None, name |-> x,
                             version |-> revision,
                             qualifiers |-> [repository_url |-> repo.path]]
        <4>1. [given EXCEPT !.name = x] = named
          OBVIOUS
        <4>2. [named EXCEPT !.qualifiers = y] =
                [type |-> "oci", namespace |-> None, name |-> x, version |-> revision,
                 qualifiers |-> y]
          OBVIOUS
        <4> HIDE DEF given, named
        <4>3. [given EXCEPT !.name = x, !.qualifiers = y] = [named EXCEPT !.qualifiers = y]
          BY <4>1
        <4>4. QED
          BY <4>2, <4>3
      <3> HIDE DEF given, prefix
      <3>2. QED
        BY <3>1
    <2> HIDE DEF given, made
    <2>4. Package!PurlObjectToString(given) = [ok |-> TRUE, purl |-> made]
      BY <1>2, <1>4, <2>1, <2>2, <2>3 DEF Package!PurlObjectToString
    <2>5. Package!ChartUrl(repo, chart, revision) = made
      BY UrlOfChart DEF made
    <2>6. Package!PurlToString(Package!Object(given)).purl
            = Package!ChartUrl(repo, chart, revision)
      BY <1>1, <2>4, <2>5
    <2>7. QED
      BY <2>6 DEF given
  <1>5. QED
    BY <1>3, <1>4

\* What one function makes of a repository the other takes.
LEMMA SourcesAgree ==
    ASSUME NEW source, NEW revision, ~IsFunction(None),
           None \notin {"github", "bitbucket", "generic"},
           NEW path \in {None, Package!Bytes("."), Package!Bytes("manifests")}
    PROVE  LET purl == Package!PurlFromArgoCdGitSource(Package!Bytes(source), path,
                                                       Package!Bytes(revision))
           IN  /\ Package!PurlToString(purl.value).ok
               /\ purl = Package!PurlFromArgoCdGitSource(Package!Bytes(source),
                             IF path = Package!Bytes(".") THEN None ELSE path,
                             Package!Bytes(revision))
  <1> DEFINE PurlAt(p) == Package!ParseArgocdGitSourceToPurl(source, p, revision)
             ValueAt(p) == Package!PurlFromArgoCdGitSource(Package!Bytes(source), p,
                                                        Package!Bytes(revision))
  <1>1. \A x : Package!Bytes(x) # None /\ Package!IsBytes(Package!Bytes(x))
                /\ Package!Bytes(x).bytes = x
    <2> SUFFICES ASSUME NEW x PROVE Package!Bytes(x) # None /\ Package!IsBytes(Package!Bytes(x))
                                    /\ Package!Bytes(x).bytes = x
      OBVIOUS
    <2>1. IsFunction([bytes |-> x])
      BY DEF IsFunction
    <2>2. QED
      BY <2>1 DEF Package!Bytes, Package!IsBytes
  <1>2. \A x : ValueAt(Package!Bytes(x)) = [ok |-> TRUE, value |-> Package!Object(PurlAt(x))]
    <2> SUFFICES ASSUME NEW x
                 PROVE  ValueAt(Package!Bytes(x))
                          = [ok |-> TRUE, value |-> Package!Object(PurlAt(x))]
      OBVIOUS
    <2>1. /\ Package!Bytes(source).bytes = source /\ Package!IsBytes(Package!Bytes(source))
          /\ Package!Bytes(revision).bytes = revision
          /\ Package!IsBytes(Package!Bytes(revision))
          /\ Package!Bytes(x) # None /\ Package!Bytes(x).bytes = x
          /\ Package!IsBytes(Package!Bytes(x))
      BY <1>1
    <2>2. (IF Package!Bytes(x) = None THEN None ELSE Package!Bytes(x).bytes) = x
      BY <2>1
    <2>3. QED
      BY <2>1, <2>2 DEF Package!PurlFromArgoCdGitSource
  <1>3. ValueAt(None) = [ok |-> TRUE, value |-> Package!Object(PurlAt(None))]
    <2>1. /\ Package!Bytes(source).bytes = source /\ Package!IsBytes(Package!Bytes(source))
          /\ Package!Bytes(revision).bytes = revision
          /\ Package!IsBytes(Package!Bytes(revision))
      BY <1>1
    <2>2. \A y : (IF None = None THEN None ELSE y) = None
      OBVIOUS
    <2>3. QED
      BY <2>1, <2>2 DEF Package!PurlFromArgoCdGitSource
  <1>4. PurlAt(".") = PurlAt(None)
    BY DEF Package!ParseArgocdGitSourceToPurl
  <1>5. \A p : Package!PurlToString(Package!Object(PurlAt(p))).ok
    <2> SUFFICES ASSUME NEW p PROVE Package!PurlToString(Package!Object(PurlAt(p))).ok
      OBVIOUS
    <2> DEFINE purl == PurlAt(p)
    <2>1. purl.type \in {"github", "bitbucket", "generic"}
      BY DEF Package!ParseArgocdGitSourceToPurl, Package!DetectGitPlatform
    <2>2. purl.name # <<>>
      BY DEF Package!ParseArgocdGitSourceToPurl
    <2> HIDE DEF purl
    <2>3. Package!PurlObjectToString(purl).ok
      BY <2>1, <2>2 DEF Package!PurlObjectToString
    <2>4. QED
      BY <2>3 DEF Package!PurlToString, Package!IsBytes, Package!Object, purl
  <1> HIDE DEF PurlAt, ValueAt
  <1>6. \A p : p \in {None, Package!Bytes("."), Package!Bytes("manifests")} =>
          \E q : ValueAt(p) = [ok |-> TRUE, value |-> Package!Object(PurlAt(q))]
    BY <1>2, <1>3
  <1>7. Package!PurlToString(ValueAt(path).value).ok
    BY <1>5, <1>6
  <1>8. ValueAt(path) = ValueAt(IF path = Package!Bytes(".") THEN None ELSE path)
    BY <1>2, <1>3, <1>4
  <1>9. QED
    BY <1>7, <1>8 DEF ValueAt

\* All of it together.
LEMMA PurlsAgree ==
    ASSUME NEW a, NEW b, Package!IsImage(a), Package!IsImage(b), NEW repo, NEW chart, NEW revision,
           Package!IsRepository(repo), Package!IsPath(chart),
           "docker.io" \in Dotted, None \notin {"oci", "github", "bitbucket", "generic"},
           ~IsFunction(None)
    PROVE  Package!OnePurlPerArtifact(a, b, repo, chart, revision)
  <1>1. (Package!ImageUrl(a) = Package!ImageUrl(b)) = (Package!Explicit(a) = Package!Explicit(b))
    BY ImagesAgree
  <1>2. \A n \in 0 .. Len(chart) - 1 :
          LET front == SubSeq(chart, 1, n)
              rest  == SubSeq(chart, n + 1, Len(chart))
          IN  Package!IsOciRegistry(repo) =>
                Package!ChartUrl([repo EXCEPT !.path = @ \o front], rest, revision)
                  = Package!ChartUrl(repo, chart, revision)
    BY SplitsAgree
  <1>3. LET given == [type |-> "oci", namespace |-> None, name |-> chart, version |-> revision,
                      qualifiers |-> [repository_url |-> repo.path]]
        IN  Package!IsOciRegistry(repo) => Package!PurlToString(Package!Object(given)).purl
                                             = Package!ChartUrl(repo, chart, revision)
    BY GivenAgrees
  <1>4. \A path \in {None, Package!Bytes("."), Package!Bytes("manifests")} :
          LET source == [host |-> Head(repo.path), path |-> Tail(repo.path) \o chart]
              purl   == Package!PurlFromArgoCdGitSource(Package!Bytes(source), path,
                                                        Package!Bytes(revision))
          IN  /\ Package!PurlToString(purl.value).ok
              /\ purl = Package!PurlFromArgoCdGitSource(Package!Bytes(source),
                            IF path = Package!Bytes(".") THEN None ELSE path,
                            Package!Bytes(revision))
    BY SourcesAgree
  <1>5. QED
    BY <1>1, <1>2, <1>3, <1>4 DEF Package!OnePurlPerArtifact

-----------------------------------------------------------------------------
(***************************************************************************)
(* The statements of the ClickHouse sink                                   *)
(***************************************************************************)

\* The marks among the first n words; one more word is at most one more mark.
Ms(s, n) == {i \in 1..n : s[i] = "?"}

LEMMA MarksStep ==
    ASSUME NEW s, NEW n \in Nat
    PROVE  /\ IsFiniteSet(Ms(s, n)) /\ Cardinality(Ms(s, n)) \in Nat
           /\ IsFiniteSet(Ms(s, n + 1))
           /\ Cardinality(Ms(s, n + 1)) = Cardinality(Ms(s, n)) + IF s[n + 1] = "?" THEN 1 ELSE 0
  <1>1. IsFiniteSet(Ms(s, n)) /\ Cardinality(Ms(s, n)) \in Nat
    <2>1. Ms(s, n) \in SUBSET (1..n) /\ IsFiniteSet(1..n)
      BY FS_Interval DEF Ms
    <2>2. IsFiniteSet(Ms(s, n))
      BY <2>1, FS_Subset
    <2>3. QED
      BY <2>2, FS_CardinalityType
  <1>2. CASE s[n + 1] = "?"
    <2>1. Ms(s, n + 1) = Ms(s, n) \cup {n + 1} /\ n + 1 \notin Ms(s, n)
      BY <1>2 DEF Ms
    <2>2. QED
      BY <1>1, <1>2, <2>1, FS_AddElement
  <1>3. CASE s[n + 1] # "?"
    <2>1. Ms(s, n + 1) = Ms(s, n)
      BY <1>3 DEF Ms
    <2>2. QED
      BY <1>1, <1>3, <2>1
  <1>4. QED
    BY <1>1, <1>2, <1>3

\* No words, no marks.
LEMMA MarksEmpty == ASSUME NEW s PROVE Ms(s, 0) = {} /\ Cardinality(Ms(s, 0)) = 0
  <1>1. Ms(s, 0) = {}
    BY DEF Ms
  <1>2. QED
    BY <1>1, FS_EmptySet

\* All words, all marks.
LEMMA MarksAre ==
    ASSUME NEW s, DOMAIN s = 1..Len(s) PROVE Record!Marks(s) = Cardinality(Ms(s, Len(s)))
  <1>1. {i \in DOMAIN s : s[i] = "?"} = Ms(s, Len(s))
    BY DEF Ms
  <1>2. \A T : Record!Cardinality(T) = Cardinality(T)
    BY DEF Record!Cardinality, Cardinality
  <1>3. QED
    BY <1>1, <1>2 DEF Record!Marks

\* The marks of two texts behind each other.
LEMMA MarksTogether ==
    ASSUME NEW S, NEW s \in Seq(S), NEW t \in Seq(S)
    PROVE  /\ Record!Marks(s) \in Nat /\ Record!Marks(t) \in Nat
           /\ Record!Marks(s \o t) = Record!Marks(s) + Record!Marks(t)
  <1> DEFINE st == s \o t
             P == {n \in Nat : n <= Len(t) =>
                      Cardinality(Ms(st, Len(s) + n))
                        = Cardinality(Ms(s, Len(s))) + Cardinality(Ms(t, n))}
  <1>1. /\ Len(s) \in Nat /\ Len(t) \in Nat /\ Len(st) = Len(s) + Len(t)
        /\ DOMAIN s = 1..Len(s) /\ DOMAIN t = 1..Len(t) /\ DOMAIN st = 1..Len(st)
        /\ \A i \in 1..Len(s) : st[i] = s[i]
        /\ \A i \in 1..Len(t) : st[Len(s) + i] = t[i]
    OBVIOUS
  <1> HIDE DEF st
  <1>2. 0 \in P
    <2>1. Ms(st, Len(s) + 0) = Ms(s, Len(s))
      BY <1>1 DEF Ms
    <2>2. Cardinality(Ms(s, Len(s))) \in Nat
      BY <1>1, MarksStep
    <2>3. Cardinality(Ms(st, Len(s) + 0)) = Cardinality(Ms(s, Len(s))) + Cardinality(Ms(t, 0))
      BY <2>1, <2>2, MarksEmpty
    <2>4. QED
      BY <2>3
  <1>3. ASSUME NEW n \in Nat, n \in P PROVE n + 1 \in P
    <2> SUFFICES ASSUME n + 1 <= Len(t)
                 PROVE  Cardinality(Ms(st, Len(s) + (n + 1)))
                          = Cardinality(Ms(s, Len(s))) + Cardinality(Ms(t, n + 1))
      OBVIOUS
    <2>1. Cardinality(Ms(st, Len(s) + n))
            = Cardinality(Ms(s, Len(s))) + Cardinality(Ms(t, n))
      BY <1>1, <1>3
    <2>2. st[Len(s) + n + 1] = t[n + 1] /\ Len(s) + (n + 1) = (Len(s) + n) + 1
          /\ Len(s) + n \in Nat
      BY <1>1
    <2>3. /\ Cardinality(Ms(st, (Len(s) + n) + 1))
               = Cardinality(Ms(st, Len(s) + n)) + IF st[(Len(s) + n) + 1] = "?" THEN 1 ELSE 0
          /\ Cardinality(Ms(t, n + 1)) = Cardinality(Ms(t, n)) + IF t[n + 1] = "?" THEN 1 ELSE 0
          /\ Cardinality(Ms(s, Len(s))) \in Nat /\ Cardinality(Ms(t, n)) \in Nat
      BY <1>1, <2>2, MarksStep
    <2>4. QED
      BY <2>1, <2>2, <2>3
  <1> HIDE DEF P
  <1>4. Len(t) \in P
    BY <1>1, <1>2, <1>3, SetInduction
  <1>5. Cardinality(Ms(st, Len(st)))
          = Cardinality(Ms(s, Len(s))) + Cardinality(Ms(t, Len(t)))
    BY <1>1, <1>4 DEF P
  <1>6. /\ Record!Marks(s) = Cardinality(Ms(s, Len(s)))
        /\ Record!Marks(t) = Cardinality(Ms(t, Len(t)))
        /\ Record!Marks(st) = Cardinality(Ms(st, Len(st)))
    BY <1>1, MarksAre
  <1>7. Cardinality(Ms(s, Len(s))) \in Nat /\ Cardinality(Ms(t, Len(t))) \in Nat
    BY <1>1, MarksStep
  <1>8. QED
    BY <1>5, <1>6, <1>7 DEF st

\* What FlattenSeq makes of the first i sequences.
IsFlat(f, q, n) == f = [i \in 1..n |-> IF i = 1 THEN q[i] ELSE f[i - 1] \o q[i]]

\* There is such a function for every list, so FlattenSeq is its last value.
LEMMA FlatExists ==
    ASSUME NEW n \in Nat, NEW q
    PROVE  \E f : IsFlat(f, q, n)
  <1> DEFINE S == {m \in Nat : \E f : IsFlat(f, q, m)}
  <1>1. 0 \in S
    <2>1. IsFlat([i \in 1..0 |-> <<>>], q, 0)
      BY DEF IsFlat
    <2>2. QED
      BY <2>1
  <1>2. ASSUME NEW m \in Nat, m \in S PROVE m + 1 \in S
    <2>1. PICK f : IsFlat(f, q, m)
      BY <1>2
    <2> DEFINE g == [i \in 1..(m + 1) |-> IF i = m + 1 THEN (IF i = 1 THEN q[i] ELSE f[m] \o q[i])
                                          ELSE f[i]]
    <2>2. g = [i \in 1..(m + 1) |-> g[i]]
      OBVIOUS
    <2>3. \A i \in 1..m : i \in 1..(m + 1) /\ g[i] = f[i]
      OBVIOUS
    <2>4. \A i \in 1..m : f[i] = IF i = 1 THEN q[i] ELSE f[i - 1] \o q[i]
      BY <2>1 DEF IsFlat
    <2>5. g[m + 1] = IF m + 1 = 1 THEN q[m + 1] ELSE f[m] \o q[m + 1]
      OBVIOUS
    <2> HIDE DEF g
    <2>6. \A i \in 1..(m + 1) : g[i] = IF i = 1 THEN q[i] ELSE g[i - 1] \o q[i]
      <3> TAKE i \in 1..(m + 1)
      <3>1. CASE i = m + 1 /\ i = 1
        BY <2>5, <3>1
      <3>2. CASE i = m + 1 /\ i # 1
        <4>1. i - 1 = m /\ m \in 1..m /\ m + 1 # 1
          BY <3>2
        <4>2. g[m] = f[m]
          BY <2>3, <4>1
        <4>3. QED
          BY <2>5, <3>2, <4>1, <4>2
      <3>3. CASE i # m + 1
        <4>1. i \in 1..m /\ (i # 1 => i - 1 \in 1..m)
          BY <3>3
        <4>2. QED
          BY <2>3, <2>4, <4>1
      <3>4. QED
        BY <3>1, <3>2, <3>3
    <2>7. IsFlat(g, q, m + 1)
      BY <2>2, <2>6 DEF IsFlat
    <2>8. QED
      BY <2>7
  <1> HIDE DEF S
  <1>3. n \in S
    BY <1>1, <1>2, SetInduction
  <1>4. QED
    BY <1>3 DEF S

LEMMA Flattened ==
    ASSUME NEW q, Len(q) \in Nat \ {0}
    PROVE  \E f : IsFlat(f, q, Len(q)) /\ Record!FlattenSeq(q) = f[Len(q)]
  <1> DEFINE f == CHOOSE f : IsFlat(f, q, Len(q))
  <1>1. IsFlat(f, q, Len(q))
    BY FlatExists
  <1>2. Record!FlattenSeq(q) = f[Len(q)]
    BY Zenon DEF Record!FlattenSeq, IsFlat
  <1> HIDE DEF f
  <1>3. QED
    BY <1>1, <1>2

\* As many marks in each text as there are values in the other.
Fits(S, T, q, r) ==
    /\ Len(q) \in Nat \ {0} /\ Len(r) = Len(q)
    /\ \A i \in 1..Len(q) : /\ q[i] \in Seq(S) /\ r[i] \in Seq(T)
                             /\ Record!Marks(q[i]) = Len(r[i])

LEMMA FlatAgree ==
    ASSUME NEW S, NEW T, NEW q, NEW r, Fits(S, T, q, r)
    PROVE  /\ Record!FlattenSeq(q) \in Seq(S) /\ Record!FlattenSeq(r) \in Seq(T)
           /\ Record!Marks(Record!FlattenSeq(q)) = Len(Record!FlattenSeq(r))
  <1>0. /\ Len(q) \in Nat \ {0} /\ Len(r) = Len(q)
        /\ \A i \in 1..Len(q) : /\ q[i] \in Seq(S) /\ r[i] \in Seq(T)
                                 /\ Record!Marks(q[i]) = Len(r[i])
    BY DEF Fits
  <1>1. PICK f : IsFlat(f, q, Len(q)) /\ Record!FlattenSeq(q) = f[Len(q)]
    BY <1>0, Flattened
  <1>2. PICK g : IsFlat(g, r, Len(q)) /\ Record!FlattenSeq(r) = g[Len(q)]
    BY <1>0, Flattened
  <1> DEFINE n == Len(q)
             P == {m \in Nat : m + 1 <= n => /\ f[m + 1] \in Seq(S) /\ g[m + 1] \in Seq(T)
                                             /\ Record!Marks(f[m + 1]) = Len(g[m + 1])}
  <1>3. \A i \in 1..n : /\ f[i] = IF i = 1 THEN q[i] ELSE f[i - 1] \o q[i]
                        /\ g[i] = IF i = 1 THEN r[i] ELSE g[i - 1] \o r[i]
    BY <1>1, <1>2 DEF IsFlat
  <1> HIDE DEF n
  <1>4. n \in Nat \ {0} /\ \A i \in 1..n : /\ q[i] \in Seq(S) /\ r[i] \in Seq(T)
                                           /\ Record!Marks(q[i]) = Len(r[i])
    BY <1>0 DEF n
  <1>5. 0 \in P
    <2>1. 1 \in 1..n /\ f[1] = q[1] /\ g[1] = r[1]
      BY <1>3, <1>4
    <2>2. QED
      BY <1>4, <2>1
  <1>6. ASSUME NEW m \in Nat, m \in P PROVE m + 1 \in P
    <2> SUFFICES ASSUME (m + 1) + 1 <= n
                 PROVE  /\ f[(m + 1) + 1] \in Seq(S) /\ g[(m + 1) + 1] \in Seq(T)
                        /\ Record!Marks(f[(m + 1) + 1]) = Len(g[(m + 1) + 1])
      OBVIOUS
    <2> DEFINE k == (m + 1) + 1
    <2>1. k \in 1..n /\ k # 1 /\ k - 1 = m + 1 /\ m + 1 <= n
      BY <1>4
    <2>2. f[m + 1] \in Seq(S) /\ g[m + 1] \in Seq(T) /\ Record!Marks(f[m + 1]) = Len(g[m + 1])
      BY <1>6, <2>1
    <2> HIDE DEF k
    <2>3. f[k] = f[m + 1] \o q[k] /\ g[k] = g[m + 1] \o r[k]
      BY <1>3, <2>1
    <2>4. q[k] \in Seq(S) /\ r[k] \in Seq(T) /\ Record!Marks(q[k]) = Len(r[k])
      BY <1>4, <2>1
    <2>5. Record!Marks(f[k]) = Record!Marks(f[m + 1]) + Record!Marks(q[k])
      BY <2>2, <2>3, <2>4, MarksTogether
    <2>6. f[k] \in Seq(S) /\ g[k] \in Seq(T) /\ Len(g[k]) = Len(g[m + 1]) + Len(r[k])
      BY <2>2, <2>3, <2>4, ConcatProperties
    <2>7. QED
      BY <2>2, <2>4, <2>5, <2>6 DEF k
  <1> HIDE DEF P
  <1>7. n - 1 \in P /\ n - 1 \in Nat
    <2>1. Nat \subseteq P
      BY <1>5, <1>6, SetInduction
    <2>2. n - 1 \in Nat
      BY <1>4
    <2>3. QED
      BY <2>1, <2>2
  <1>8. f[n] \in Seq(S) /\ g[n] \in Seq(T) /\ Record!Marks(f[n]) = Len(g[n])
    <2>1. (n - 1) + 1 = n
      BY <1>4
    <2>2. QED
      BY <1>4, <1>7, <2>1 DEF P
  <1>9. QED
    BY <1>1, <1>2, <1>8 DEF n

\* The first of the pieces stays in front.
LEMMA FlatStarts ==
    ASSUME NEW S, NEW q, Len(q) \in Nat \ {0}, \A i \in 1..Len(q) : q[i] \in Seq(S)
    PROVE  /\ Record!FlattenSeq(q) \in Seq(S) /\ Len(q[1]) <= Len(Record!FlattenSeq(q))
           /\ \A j \in 1..Len(q[1]) : Record!FlattenSeq(q)[j] = q[1][j]
           /\ Len(q) = 1 => Record!FlattenSeq(q) = q[1]
  <1>1. PICK f : IsFlat(f, q, Len(q)) /\ Record!FlattenSeq(q) = f[Len(q)]
    BY Flattened
  <1> DEFINE n == Len(q)
             P == {m \in Nat : m + 1 <= n => /\ f[m + 1] \in Seq(S) /\ Len(q[1]) <= Len(f[m + 1])
                                             /\ \A j \in 1..Len(q[1]) : f[m + 1][j] = q[1][j]}
  <1>2. \A i \in 1..n : f[i] = IF i = 1 THEN q[i] ELSE f[i - 1] \o q[i]
    BY <1>1 DEF IsFlat
  <1> HIDE DEF n
  <1>3. n \in Nat \ {0} /\ \A i \in 1..n : q[i] \in Seq(S)
    BY DEF n
  <1>4. 1 \in 1..n /\ f[1] = q[1] /\ Len(q[1]) \in Nat
    BY <1>2, <1>3
  <1>5. 0 \in P
    BY <1>3, <1>4
  <1>6. ASSUME NEW m \in Nat, m \in P PROVE m + 1 \in P
    <2> SUFFICES ASSUME (m + 1) + 1 <= n
                 PROVE  /\ f[(m + 1) + 1] \in Seq(S) /\ Len(q[1]) <= Len(f[(m + 1) + 1])
                        /\ \A j \in 1..Len(q[1]) : f[(m + 1) + 1][j] = q[1][j]
      OBVIOUS
    <2> DEFINE k == (m + 1) + 1
    <2>1. k \in 1..n /\ k # 1 /\ k - 1 = m + 1 /\ m + 1 <= n
      BY <1>3
    <2>2. /\ f[m + 1] \in Seq(S) /\ Len(q[1]) <= Len(f[m + 1])
          /\ \A j \in 1..Len(q[1]) : f[m + 1][j] = q[1][j]
      BY <1>6, <2>1
    <2> HIDE DEF k
    <2>3. f[k] = f[m + 1] \o q[k] /\ q[k] \in Seq(S)
      BY <1>2, <1>3, <2>1
    <2>4. /\ f[k] \in Seq(S) /\ Len(f[k]) = Len(f[m + 1]) + Len(q[k])
          /\ \A j \in 1..Len(f[m + 1]) : f[k][j] = f[m + 1][j]
      <3> DEFINE a == f[m + 1]
                 b == q[k]
      <3>1. a \in Seq(S) /\ b \in Seq(S) /\ f[k] = a \o b
        BY <2>2, <2>3
      <3> HIDE DEF a, b
      <3>2. /\ a \o b \in Seq(S) /\ Len(a \o b) = Len(a) + Len(b)
            /\ \A j \in 1..Len(a) : (a \o b)[j] = a[j]
        BY <3>1
      <3>3. QED
        BY <3>1, <3>2 DEF a, b
    <2>5. Len(f[m + 1]) \in Nat /\ Len(q[k]) \in Nat
      BY <2>2, <2>3
    <2>6. Len(q[1]) <= Len(f[k])
      <3> DEFINE x == Len(q[1])
                 y == Len(f[m + 1])
                 z == Len(q[k])
      <3>1. x \in Nat /\ y \in Nat /\ z \in Nat /\ x <= y /\ Len(f[k]) = y + z
        BY <1>4, <2>2, <2>4, <2>5
      <3> HIDE DEF x, y, z
      <3>2. x <= y + z
        BY <3>1
      <3>3. QED
        BY <3>1, <3>2 DEF x
    <2>7. \A j \in 1..Len(q[1]) : f[k][j] = q[1][j]
      <3> TAKE j \in 1..Len(q[1])
      <3>1. j \in 1..Len(f[m + 1])
        BY <1>4, <2>2, <2>5
      <3>2. QED
        BY <2>2, <2>4, <3>1
    <2>8. QED
      BY <2>4, <2>6, <2>7 DEF k
  <1> HIDE DEF P
  <1>7. n - 1 \in P /\ n - 1 \in Nat
    <2>1. Nat \subseteq P
      BY <1>5, <1>6, SetInduction
    <2>2. n - 1 \in Nat
      BY <1>3
    <2>3. QED
      BY <2>1, <2>2
  <1>8. /\ f[n] \in Seq(S) /\ Len(q[1]) <= Len(f[n])
        /\ \A j \in 1..Len(q[1]) : f[n][j] = q[1][j]
    <2>1. (n - 1) + 1 = n
      BY <1>3
    <2>2. QED
      BY <1>3, <1>7, <2>1 DEF P
  <1>9. QED
    BY <1>1, <1>4, <1>8 DEF n

\* A text without a "?" has no marks.
LEMMA NoMarks ==
    ASSUME NEW s, \A i \in DOMAIN s : s[i] # "?" PROVE Record!Marks(s) = 0
  <1>1. {i \in DOMAIN s : s[i] = "?"} = {}
    OBVIOUS
  <1>2. Cardinality({}) = 0
    BY FS_EmptySet
  <1>3. \A T : Record!Cardinality(T) = Cardinality(T)
    BY DEF Record!Cardinality, Cardinality
  <1>4. QED
    BY <1>1, <1>2, <1>3 DEF Record!Marks

\* The marks of the two parts of a text.
LEMMA MarksSplit ==
    ASSUME NEW S, NEW s \in Seq(S), NEW n \in 0..Len(s)
    PROVE  /\ SubSeq(s, 1, n) \in Seq(S) /\ SubSeq(s, n + 1, Len(s)) \in Seq(S)
           /\ Len(SubSeq(s, 1, n)) = n
           /\ Len(SubSeq(s, n + 1, Len(s))) = Len(s) - n
           /\ \A i \in 1..n : SubSeq(s, 1, n)[i] = s[i]
           /\ \A i \in 1..(Len(s) - n) : SubSeq(s, n + 1, Len(s))[i] = s[n + i]
           /\ Record!Marks(s)
                = Record!Marks(SubSeq(s, 1, n)) + Record!Marks(SubSeq(s, n + 1, Len(s)))
  <1> DEFINE a == SubSeq(s, 1, n)
             b == SubSeq(s, n + 1, Len(s))
  <1>1. a \in Seq(S) /\ Len(a) = n /\ \A i \in 1..n : a[i] = s[i]
    OBVIOUS
  <1>2. b \in Seq(S) /\ Len(b) = Len(s) - n /\ \A i \in 1..(Len(s) - n) : b[i] = s[n + i]
    OBVIOUS
  <1> HIDE DEF a, b
  <1>3. a \o b = s
    <2>1. /\ a \o b \in Seq(S) /\ Len(a \o b) = Len(s)
          /\ \A i \in 1..Len(s) : (a \o b)[i] = IF i <= n THEN a[i] ELSE b[i - n]
      BY <1>1, <1>2, ConcatProperties
    <2>2. \A i \in 1..Len(s) : (a \o b)[i] = s[i]
      <3> TAKE i \in 1..Len(s)
      <3>1. i <= n => i \in 1..n
        OBVIOUS
      <3>2. ~(i <= n) => i - n \in 1..(Len(s) - n) /\ n + (i - n) = i
        OBVIOUS
      <3>3. QED
        BY <1>1, <1>2, <2>1, <3>1, <3>2
    <2>3. QED
      BY <2>1, <2>2, SeqEqual
  <1>4. Record!Marks(a \o b) = Record!Marks(a) + Record!Marks(b)
    BY <1>1, <1>2, MarksTogether
  <1>5. QED
    BY <1>1, <1>2, <1>3, <1>4 DEF a, b

\* Some number of a bounded set is the greatest.
LEMMA Largest ==
    ASSUME NEW S, NEW n \in Nat, S \subseteq 0..n, S # {}
    PROVE  \E m \in S : \A i \in S : i <= m
  <1> DEFINE T == {n - i : i \in S}
  <1>1. T \subseteq Nat /\ T # {}
    <2>1. \A i \in S : n - i \in Nat
      OBVIOUS
    <2>2. QED
      BY <2>1
  <1>2. PICK k \in T : \A j \in T : k <= j
    BY <1>1, Smallest, Zenon
  <1>3. PICK m \in S : k = n - m
    BY <1>2
  <1>4. \A i \in S : n - m <= n - i
    BY <1>2, <1>3
  <1>5. \A i \in S : i <= m
    BY <1>4
  <1>6. QED
    BY <1>5

\* Every placeholder of a template is a mark of its statement, and there is none but these.
LEMMA PlacesMarked ==
    ASSUME NEW template, Record!IsTemplate(template), Len(template) # 0,
           NEW sql, sql = [i \in DOMAIN template |->
                              IF Record!IsPlaceholder(template[i]) THEN "?"
                              ELSE template[i].word]
    PROVE  /\ sql \in Seq({sql[i] : i \in DOMAIN sql}) /\ Len(sql) = Len(template)
           /\ Record!Placeholders(template)
                \in Seq({template[i].field : i \in DOMAIN template})
           /\ Record!Marks(sql) = Len(Record!Placeholders(template))
  <1> DEFINE n == Len(template)
             T == {template[i].field : i \in DOMAIN template}
             Piece(i) == IF Record!IsPlaceholder(template[i]) THEN <<template[i].field>>
                         ELSE <<>>
             q == [i \in DOMAIN template |-> Piece(i)]
  <1>1. n \in Nat \ {0} /\ DOMAIN template = 1..n
    BY DEF Record!IsTemplate
  <1>2. q = [i \in 1..n |-> Piece(i)] /\ Len(q) = n
    BY <1>1
  <1>3. /\ sql \in Seq({sql[i] : i \in DOMAIN sql}) /\ Len(sql) = n /\ DOMAIN sql = 1..n
        /\ \A i \in 1..n : (sql[i] = "?") <=> Record!IsPlaceholder(template[i])
    <2>1. DOMAIN sql = 1..n
      BY <1>1
    <2>2. \A i \in 1..n : (sql[i] = "?") <=> Record!IsPlaceholder(template[i])
      BY <1>1 DEF Record!IsTemplate
    <2>3. sql = [i \in 1..n |-> sql[i]]
      BY <1>1
    <2>4. QED
      BY <1>1, <2>1, <2>2, <2>3
  <1>4. \A i \in 1..n : /\ q[i] \in Seq(T)
                        /\ Len(q[i]) = IF sql[i] = "?" THEN 1 ELSE 0
    <2> TAKE i \in 1..n
    <2>1. q[i] = Piece(i) /\ template[i].field \in T
      BY <1>1
    <2>2. CASE Record!IsPlaceholder(template[i])
      <3>1. q[i] = <<template[i].field>> /\ sql[i] = "?"
        BY <1>3, <2>1, <2>2
      <3> HIDE DEF q, T
      <3>2. QED
        BY <2>1, <3>1
    <2>3. CASE ~Record!IsPlaceholder(template[i])
      <3>1. q[i] = <<>> /\ sql[i] # "?"
        BY <1>3, <2>1, <2>3
      <3> HIDE DEF q, T
      <3>2. QED
        BY <3>1
    <2>4. QED
      BY <2>2, <2>3
  <1>5. Record!Placeholders(template) = Record!FlattenSeq(q)
    BY DEF Record!Placeholders
  <1> HIDE DEF q, T, n
  <1>6. PICK f : IsFlat(f, q, n) /\ Record!FlattenSeq(q) = f[n]
    BY <1>1, <1>2, Flattened
  <1>7. \A i \in 1..n : f[i] = IF i = 1 THEN q[i] ELSE f[i - 1] \o q[i]
    BY <1>6 DEF IsFlat
  <1> DEFINE P == {m \in Nat : m + 1 <= n =>
                      /\ f[m + 1] \in Seq(T)
                      /\ Cardinality(Ms(sql, m + 1)) = Len(f[m + 1])}
  <1>8. 0 \in P
    <2>1. 1 \in 1..n /\ f[1] = q[1]
      BY <1>1, <1>7
    <2>2. Cardinality(Ms(sql, 0 + 1))
            = Cardinality(Ms(sql, 0)) + IF sql[0 + 1] = "?" THEN 1 ELSE 0
      BY MarksStep
    <2>3. Cardinality(Ms(sql, 1)) = IF sql[1] = "?" THEN 1 ELSE 0
      BY <2>2, MarksEmpty
    <2>4. QED
      BY <1>4, <2>1, <2>3
  <1>9. ASSUME NEW m \in Nat, m \in P PROVE m + 1 \in P
    <2> SUFFICES ASSUME (m + 1) + 1 <= n
                 PROVE  /\ f[(m + 1) + 1] \in Seq(T)
                        /\ Cardinality(Ms(sql, (m + 1) + 1)) = Len(f[(m + 1) + 1])
      OBVIOUS
    <2> DEFINE k == m + 1
    <2>1. k \in Nat /\ k + 1 \in 1..n /\ k + 1 # 1 /\ (k + 1) - 1 = k /\ k <= n
      BY <1>1
    <2>2. f[k] \in Seq(T) /\ Cardinality(Ms(sql, k)) = Len(f[k])
      BY <1>9, <2>1
    <2> HIDE DEF k
    <2>3. f[k + 1] = f[k] \o q[k + 1]
      BY <1>7, <2>1
    <2>4. q[k + 1] \in Seq(T) /\ Len(q[k + 1]) = IF sql[k + 1] = "?" THEN 1 ELSE 0
      BY <1>4, <2>1
    <2>5. Cardinality(Ms(sql, k + 1))
            = Cardinality(Ms(sql, k)) + IF sql[k + 1] = "?" THEN 1 ELSE 0
      BY <2>1, MarksStep
    <2>6. f[k + 1] \in Seq(T) /\ Len(f[k + 1]) = Len(f[k]) + Len(q[k + 1])
      <3> DEFINE a == f[k]
                 b == q[k + 1]
      <3>1. a \in Seq(T) /\ b \in Seq(T) /\ f[k + 1] = a \o b
        BY <2>2, <2>3, <2>4
      <3> HIDE DEF a, b
      <3>2. a \o b \in Seq(T) /\ Len(a \o b) = Len(a) + Len(b)
        BY <3>1
      <3>3. QED
        BY <3>1, <3>2 DEF a, b
    <2>7. Cardinality(Ms(sql, k + 1)) = Len(f[k + 1])
      BY <2>2, <2>4, <2>5, <2>6
    <2>8. QED
      BY <2>6, <2>7 DEF k
  <1> HIDE DEF P
  <1>10. n - 1 \in P /\ (n - 1) + 1 = n
    <2>1. Nat \subseteq P
      BY <1>8, <1>9, SetInduction
    <2>2. n - 1 \in Nat /\ (n - 1) + 1 = n
      BY <1>1
    <2>3. QED
      BY <2>1, <2>2
  <1>11. f[n] \in Seq(T) /\ Cardinality(Ms(sql, n)) = Len(f[n])
    BY <1>1, <1>10 DEF P
  <1>12. Record!Marks(sql) = Cardinality(Ms(sql, Len(sql)))
    BY <1>3, MarksAre
  <1>13. QED
    BY <1>3, <1>5, <1>6, <1>11, <1>12 DEF T, n

\* A list of rows: the tuple, with c behind each but the last; and the values of each.
AreRows(q, tuple, c) ==
    /\ Len(q) \in Nat \ {0}
    /\ \A i \in 1..Len(q) : q[i] = IF i < Len(q) THEN tuple \o <<c>> ELSE tuple

AreValues(V, values, rows, n) ==
    /\ Len(values) = rows
    /\ \A i \in 1..rows : values[i] \in Seq(V) /\ Len(values[i]) = n

\* What the rows and the values have to do with each other, before and after.
RowsFit(S, V, tuple, c, q, values) ==
    /\ tuple \in Seq(S) /\ c # "?" /\ AreRows(q, tuple, c)
    /\ AreValues(V, values, Len(q), Record!Marks(tuple))

RowsAgree(S, tuple, c, text, count) ==
    /\ text \in Seq(S \cup {c}) /\ Record!Marks(text) = count
    /\ Len(tuple) <= Len(text) /\ \A j \in 1..Len(tuple) : text[j] = tuple[j]

\* The rows of a statement, each of them as many marks as the tuple, from
\* the tuple on.
LEMMA RowsMarked ==
    ASSUME NEW S, NEW V, NEW tuple, NEW c, NEW q, NEW values,
           RowsFit(S, V, tuple, c, q, values)
    PROVE  RowsAgree(S, tuple, c, Record!FlattenSeq(q), Len(Record!FlattenSeq(values)))
  <1> DEFINE rows == Len(q)
             comma == <<c>>
  <1>0. /\ rows \in Nat \ {0} /\ Len(q) = rows /\ Len(values) = rows
        /\ \A i \in 1..rows : q[i] = IF i < rows THEN tuple \o comma ELSE tuple
        /\ \A i \in 1..rows : values[i] \in Seq(V) /\ Len(values[i]) = Record!Marks(tuple)
        /\ tuple \in Seq(S) /\ c # "?" /\ comma = <<c>>
    BY DEF RowsFit, AreRows, AreValues
  <1> HIDE DEF rows, comma
  <1> DEFINE C == S \cup {c}
  <1>1. comma \in Seq(C) /\ Record!Marks(comma) = 0 /\ Len(comma) = 1
    <2>1. comma \in Seq(C) /\ Len(comma) = 1
      BY <1>0
    <2>2. \A i \in DOMAIN comma : comma[i] # "?"
      BY <1>0
    <2>3. QED
      BY <2>1, <2>2, NoMarks
  <1>2. tuple \in Seq(C) /\ Len(tuple) \in Nat
    BY <1>0
  <1> HIDE DEF C
  <1>3. /\ tuple \o comma \in Seq(C) /\ Record!Marks(tuple \o comma) = Record!Marks(tuple)
        /\ Len(tuple) <= Len(tuple \o comma)
        /\ \A j \in 1..Len(tuple) : (tuple \o comma)[j] = tuple[j]
    <2>1. /\ Record!Marks(tuple) \in Nat
          /\ Record!Marks(tuple \o comma) = Record!Marks(tuple) + Record!Marks(comma)
      BY <1>1, <1>2, MarksTogether
    <2>2. /\ tuple \o comma \in Seq(C) /\ Len(tuple \o comma) = Len(tuple) + Len(comma)
          /\ \A j \in 1..Len(tuple) : (tuple \o comma)[j] = tuple[j]
      <3>1. /\ tuple \o comma \in Seq(C) /\ Len(tuple \o comma) = Len(tuple) + Len(comma)
            /\ \A j \in 1..Len(tuple) + Len(comma) :
                  (tuple \o comma)[j] = IF j <= Len(tuple) THEN tuple[j]
                                        ELSE comma[j - Len(tuple)]
        BY <1>1, <1>2, ConcatProperties
      <3>2. \A j \in 1..Len(tuple) : j \in 1..Len(tuple) + Len(comma) /\ j <= Len(tuple)
        BY <1>1, <1>2
      <3>3. QED
        BY <3>1, <3>2
    <2>3. QED
      BY <1>1, <1>2, <2>1, <2>2
  <1>4. Len(q) = rows /\ rows \in Nat \ {0}
    BY <1>0
  <1>5. \A i \in 1..rows : /\ q[i] \in Seq(C) /\ Record!Marks(q[i]) = Record!Marks(tuple)
                           /\ Len(tuple) <= Len(q[i])
                           /\ \A j \in 1..Len(tuple) : q[i][j] = tuple[j]
    <2> TAKE i \in 1..rows
    <2>1. q[i] = IF i < rows THEN tuple \o comma ELSE tuple
      BY <1>0
    <2>2. CASE i < rows
      BY <1>3, <2>1, <2>2
    <2>3. CASE ~(i < rows)
      BY <1>2, <2>1, <2>3
    <2>4. QED
      BY <2>2, <2>3
  <1>7. \A i \in 1..rows : /\ q[i] \in Seq(C) /\ values[i] \in Seq(V)
                           /\ Record!Marks(q[i]) = Len(values[i])
    BY <1>0, <1>5
  <1>8. Record!FlattenSeq(q) \in Seq(C) /\ Record!Marks(Record!FlattenSeq(q))
                                             = Len(Record!FlattenSeq(values))
    <2>1. Fits(C, V, q, values)
      BY <1>0, <1>4, <1>7 DEF Fits
    <2>2. QED
      BY <2>1, FlatAgree
  <1>9. /\ Len(q[1]) <= Len(Record!FlattenSeq(q))
        /\ \A j \in 1..Len(q[1]) : Record!FlattenSeq(q)[j] = q[1][j]
    <2>1. Len(q) \in Nat \ {0} /\ \A i \in 1..Len(q) : q[i] \in Seq(C)
      BY <1>4, <1>7
    <2>2. QED
      BY <2>1, FlatStarts
  <1>10. 1 \in 1..rows
    BY <1>0
  <1>11. /\ q[1] \in Seq(C) /\ Len(tuple) <= Len(q[1])
         /\ \A j \in 1..Len(tuple) : q[1][j] = tuple[j]
    BY <1>5, <1>10
  <1>12. /\ Len(q[1]) \in Nat /\ Len(Record!FlattenSeq(q)) \in Nat
    BY <1>8, <1>11
  <1>13. Len(tuple) <= Len(Record!FlattenSeq(q))
    BY <1>2, <1>9, <1>11, <1>12
  <1>14. \A j \in 1..Len(tuple) : Record!FlattenSeq(q)[j] = tuple[j]
    <2> TAKE j \in 1..Len(tuple)
    <2>1. j \in 1..Len(q[1])
      BY <1>2, <1>11, <1>12
    <2>2. QED
      BY <1>9, <1>11, <2>1
  <1>15. QED
    BY <1>8, <1>13, <1>14 DEF C, RowsAgree

\* The statement behind a head without marks.
LEMMA HeadKept ==
    ASSUME NEW S, NEW head \in Seq(S), NEW tuple \in Seq(S), NEW text \in Seq(S),
           Len(tuple) <= Len(text), \A j \in 1..Len(tuple) : text[j] = tuple[j]
    PROVE  SubSeq(head \o text, 1, Len(head \o tuple)) = head \o tuple
  <1> DEFINE a == head \o tuple
             b == head \o text
             n == Len(a)
  <1>1. /\ a \in Seq(S) /\ n = Len(head) + Len(tuple) /\ Len(head) \in Nat
        /\ Len(tuple) \in Nat /\ Len(text) \in Nat
        /\ \A i \in 1..Len(head) + Len(tuple) :
              a[i] = IF i <= Len(head) THEN head[i] ELSE tuple[i - Len(head)]
    BY ConcatProperties
  <1>2. /\ b \in Seq(S) /\ Len(b) = Len(head) + Len(text)
        /\ \A i \in 1..Len(head) + Len(text) :
              b[i] = IF i <= Len(head) THEN head[i] ELSE text[i - Len(head)]
    BY ConcatProperties
  <1> HIDE DEF a, b, n
  <1>3. n \in 0..Len(b)
    BY <1>1, <1>2
  <1>4. /\ SubSeq(b, 1, n) \in Seq(S) /\ Len(SubSeq(b, 1, n)) = n
        /\ \A i \in 1..n : SubSeq(b, 1, n)[i] = b[i]
    BY <1>2, <1>3, MarksSplit
  <1>5. \A i \in 1..n : b[i] = a[i]
    <2> TAKE i \in 1..n
    <2>1. i \in 1..Len(head) + Len(tuple) /\ i \in 1..Len(head) + Len(text)
      BY <1>1
    <2>2. ~(i <= Len(head)) => i - Len(head) \in 1..Len(tuple)
      BY <1>1, <2>1
    <2>3. QED
      BY <1>1, <1>2, <2>1, <2>2
  <1>6. Len(a) = n
    BY DEF n
  <1>7. SubSeq(b, 1, n) = a
    BY <1>1, <1>4, <1>5, <1>6, SeqEqual
  <1>8. QED
    BY <1>7 DEF a, b, n

\* What is behind the tuple t of a text is nothing but c.
IsTuple(t, text, c) ==
    \E n \in 0..Len(text) : t = SubSeq(text, 1, n) /\ \A i \in (n + 1)..Len(text) : text[i] = c

\* What ParseQuery takes for the tuple is one: the last other word ends it.
TupleOf(text, c) ==
    SubSeq(text, 1, CHOOSE n \in 0 .. Len(text) :
                        /\ \A i \in {i \in DOMAIN text : text[i] # c} : i <= n
                        /\ n = 0 \/ n \in {i \in DOMAIN text : text[i] # c})

LEMMA TupleFound ==
    ASSUME NEW S, NEW text \in Seq(S), NEW c PROVE IsTuple(TupleOf(text, c), text, c)
  <1> DEFINE solid == {i \in DOMAIN text : text[i] # c}
             end   == CHOOSE n \in 0 .. Len(text) : /\ \A i \in solid : i <= n
                                                    /\ n = 0 \/ n \in solid
  <1>1. Len(text) \in Nat /\ DOMAIN text = 1..Len(text) /\ solid \subseteq 0..Len(text)
    OBVIOUS
  <1>2. \E n \in 0 .. Len(text) : (\A i \in solid : i <= n) /\ (n = 0 \/ n \in solid)
    <2>1. CASE solid = {}
      <3>1. 0 \in 0 .. Len(text) /\ \A i \in solid : i <= 0
        BY <1>1, <2>1
      <3>2. QED
        BY <3>1, Zenon
    <2>2. CASE solid # {}
      <3>1. PICK m \in solid : \A i \in solid : i <= m
        BY <1>1, <2>2, Largest
      <3>2. m \in 0 .. Len(text)
        BY <1>1
      <3>3. QED
        BY <3>1, <3>2, Zenon
    <2>3. QED
      BY <2>1, <2>2
  <1>3. end \in 0 .. Len(text) /\ \A i \in solid : i <= end
    BY <1>2, Zenon
  <1> HIDE DEF end
  <1>4. \A i \in (end + 1)..Len(text) : i \in DOMAIN text /\ ~(i <= end)
    BY <1>1, <1>3
  <1>5. \A i \in (end + 1)..Len(text) : text[i] = c
    BY <1>3, <1>4
  <1>6. IsTuple(SubSeq(text, 1, end), text, c)
    BY <1>3, <1>5 DEF IsTuple
  <1>7. TupleOf(text, c) = SubSeq(text, 1, end)
    BY DEF TupleOf, end
  <1>8. QED
    BY <1>6, <1>7

\* What is behind it has no marks.
LEMMA TupleMarked ==
    ASSUME NEW S, NEW text \in Seq(S), NEW c, c # "?", NEW t, IsTuple(t, text, c)
    PROVE  t \in Seq(S) /\ Record!Marks(t) = Record!Marks(text)
  <1>1. PICK n \in 0..Len(text) : /\ t = SubSeq(text, 1, n)
                                  /\ \A i \in (n + 1)..Len(text) : text[i] = c
    BY DEF IsTuple
  <1> DEFINE b == SubSeq(text, n + 1, Len(text))
  <1>2. /\ t \in Seq(S) /\ b \in Seq(S) /\ Len(b) = Len(text) - n
        /\ \A i \in 1..(Len(text) - n) : b[i] = text[n + i]
        /\ Record!Marks(text) = Record!Marks(t) + Record!Marks(b)
    BY <1>1, MarksSplit
  <1> HIDE DEF b
  <1>3. \A i \in DOMAIN b : b[i] # "?"
    <2> TAKE i \in DOMAIN b
    <2>1. i \in 1..(Len(text) - n) /\ Len(text) \in Nat
      BY <1>2
    <2>2. n + i \in (n + 1)..Len(text)
      BY <2>1
    <2>3. text[n + i] = c
      BY <1>1, <2>2
    <2>4. QED
      BY <1>2, <2>1, <2>3
  <1>4. Record!Marks(b) = 0
    BY <1>3, NoMarks
  <1>5. Record!Marks(t) \in Nat
    BY <1>2, MarksTogether
  <1>6. QED
    BY <1>2, <1>4, <1>5

\* The parts of a statement of several rows, and what is to be shown of it.
StatementFits(S, sql, m, d, tuple, c, q, V, values) ==
    /\ sql \in Seq(S) /\ m \in 0..Len(sql) /\ d # "?" /\ c # "?"
    /\ IsTuple(tuple, SubSeq(sql, m + 1, Len(sql)), d) /\ Record!Marks(SubSeq(sql, 1, m)) = 0
    /\ AreRows(q, tuple, c) /\ AreValues(V, values, Len(q), Record!Marks(sql))

StatementMatches(head, tuple, text, count) ==
    /\ Record!Marks(head \o text) = count
    /\ SubSeq(head \o text, 1, Len(head \o tuple)) = head \o tuple

\* The statement of any number of rows, for a text whose head has no placeholder.
LEMMA StatementOfRows ==
    ASSUME NEW S, NEW sql, NEW m, NEW d, NEW tuple, NEW c, NEW q, NEW V, NEW values,
           StatementFits(S, sql, m, d, tuple, c, q, V, values)
    PROVE  StatementMatches(SubSeq(sql, 1, m), tuple, Record!FlattenSeq(q),
                            Len(Record!FlattenSeq(values)))
  <1>0. /\ sql \in Seq(S) /\ m \in 0..Len(sql) /\ d # "?" /\ c # "?"
        /\ IsTuple(tuple, SubSeq(sql, m + 1, Len(sql)), d)
        /\ Record!Marks(SubSeq(sql, 1, m)) = 0
        /\ AreRows(q, tuple, c) /\ AreValues(V, values, Len(q), Record!Marks(sql))
    BY DEF StatementFits
  <1> DEFINE head == SubSeq(sql, 1, m)
             rest == SubSeq(sql, m + 1, Len(sql))
             text == Record!FlattenSeq(q)
  <1>1. /\ head \in Seq(S) /\ rest \in Seq(S)
        /\ Record!Marks(sql) = Record!Marks(head) + Record!Marks(rest)
    BY <1>0, MarksSplit
  <1>2. IsTuple(tuple, rest, d) /\ Record!Marks(head) = 0
    BY <1>0
  <1> HIDE DEF head, rest
  <1>3. tuple \in Seq(S) /\ Record!Marks(tuple) = Record!Marks(rest)
    BY <1>0, <1>1, <1>2, TupleMarked
  <1>4. Record!Marks(rest) \in Nat
    BY <1>1, MarksTogether
  <1>5. Record!Marks(tuple) = Record!Marks(sql)
    BY <1>1, <1>2, <1>3, <1>4
  <1>6. /\ text \in Seq(S \cup {c})
        /\ Record!Marks(text) = Len(Record!FlattenSeq(values))
        /\ Len(tuple) <= Len(text)
        /\ \A j \in 1..Len(tuple) : text[j] = tuple[j]
    <2>1. AreValues(V, values, Len(q), Record!Marks(tuple))
      BY <1>0, <1>5
    <2>2. RowsFit(S, V, tuple, c, q, values)
      BY <1>0, <1>3, <2>1 DEF RowsFit
    <2> HIDE DEF text
    <2>3. RowsAgree(S, tuple, c, Record!FlattenSeq(q), Len(Record!FlattenSeq(values)))
      BY <2>2, RowsMarked
    <2>4. QED
      BY <2>3 DEF text, RowsAgree
  <1> HIDE DEF text
  <1>7. head \in Seq(S \cup {c}) /\ tuple \in Seq(S \cup {c})
    BY <1>1, <1>3
  <1>8. /\ Record!Marks(head \o text) = Record!Marks(head) + Record!Marks(text)
        /\ Record!Marks(text) \in Nat
    BY <1>6, <1>7, MarksTogether
  <1>9. SubSeq(head \o text, 1, Len(head \o tuple)) = head \o tuple
    BY <1>6, <1>7, HeadKept
  <1>10. Record!Marks(head \o text) = Len(Record!FlattenSeq(values))
    BY <1>2, <1>6, <1>8
  <1>11. QED
    BY <1>9, <1>10 DEF head, text, StatementMatches

\* The query of a template, with its parts named.
Sql(template) ==
    [i \in DOMAIN template |-> IF Record!IsPlaceholder(template[i]) THEN "?"
                               ELSE template[i].word]

MarksOf(sql, w) == {i \in DOMAIN sql : sql[i] = w}
LastOf(marks)   == CHOOSE i \in marks : \A j \in marks : j <= i

\* What ParseQuery makes of a template it accepts.
LEMMA QueryParsed ==
    ASSUME NEW template
    PROVE  LET query  == Record!ParseQuery(template)
               fields == Record!Placeholders(template)
               sql    == Sql(template)
               marks  == MarksOf(sql, "VALUES")
               mark   == LastOf(marks)
           IN  query.ok =>
                 /\ fields # <<>> /\ query.fields = fields /\ query.sql = sql
                 /\ query.values # None =>
                       /\ marks # {}
                       /\ query.values.head = SubSeq(sql, 1, mark)
                       /\ query.values.tuple = TupleOf(SubSeq(sql, mark + 1, Len(sql)), ";")
  <1> DEFINE fields == Record!Placeholders(template)
             sql    == Sql(template)
             marks  == MarksOf(sql, "VALUES")
             mark   == LastOf(marks)
             tuple  == TupleOf(SubSeq(sql, mark + 1, Len(sql)), ";")
             Shaped == marks # {} /\ tuple # <<>> /\ Head(tuple) = "(" /\ Record!Last(tuple) = ")"
             values == IF Shaped THEN [head |-> SubSeq(sql, 1, mark), tuple |-> tuple] ELSE None
             Bad    == fields = <<>> \/ \E i \in DOMAIN fields : fields[i] \notin Record!Fields
  <1>1. Record!ParseQuery(template) =
           IF Bad THEN [ok |-> FALSE]
           ELSE [ok |-> TRUE, sql |-> sql, fields |-> fields, values |-> values]
    BY Zenon DEF Record!ParseQuery, Sql, MarksOf, LastOf, TupleOf
  <1>2. Shaped => marks # {}
    OBVIOUS
  <1>3. Bad \/ fields # <<>>
    OBVIOUS
  <1> HIDE DEF fields, sql, marks, mark, tuple, Shaped, Bad
  <1>4. values # None => /\ Shaped /\ values.head = SubSeq(sql, 1, mark) /\ values.tuple = tuple
    OBVIOUS
  <1> HIDE DEF values
  <1>5. CASE Bad
    <2>1. Record!ParseQuery(template).ok = FALSE
      BY <1>1, <1>5
    <2>2. QED
      BY <2>1
  <1>6. CASE ~Bad
    <2>1. /\ Record!ParseQuery(template).sql = sql
          /\ Record!ParseQuery(template).fields = fields
          /\ Record!ParseQuery(template).values = values
      BY <1>1, <1>6
    <2>2. fields # <<>> /\ (values # None => marks # {})
      BY <1>2, <1>3, <1>4, <1>6
    <2>3. QED
      BY <1>4, <2>1, <2>2 DEF fields, sql, marks, mark, tuple
  <1>7. QED
    BY <1>5, <1>6

\* The values of several events, in the order of the fields.
RowValues(fields, events) ==
    [i \in DOMAIN events |->
        [j \in DOMAIN fields |-> Record!ExtractValue(fields[j], events[i])]]

\* Each event gives as many values as there are fields.
LEMMA ValuesBound ==
    ASSUME NEW T, NEW fields \in Seq(T), NEW E, NEW events \in Seq(E), events # <<>>
    PROVE  /\ Len(events) \in Nat \ {0}
           /\ \E V : AreValues(V, RowValues(fields, events), Len(events), Len(fields))
  <1> DEFINE rows == RowValues(fields, events)
             V == {rows[i][j] : i \in DOMAIN events, j \in DOMAIN fields}
  <1>1. /\ Len(events) \in Nat \ {0} /\ DOMAIN events = 1..Len(events)
        /\ Len(fields) \in Nat /\ DOMAIN fields = 1..Len(fields)
    OBVIOUS
  <1>2. /\ DOMAIN rows = 1..Len(events)
        /\ rows = [i \in 1..Len(events) |-> rows[i]]
        /\ \A i \in 1..Len(events) :
              rows[i] = [j \in 1..Len(fields) |-> rows[i][j]]
    BY <1>1 DEF RowValues
  <1>3. \A i \in 1..Len(events), j \in 1..Len(fields) : rows[i][j] \in V
    BY <1>1
  <1> HIDE DEF rows, V
  <1>4. \A i \in 1..Len(events) : rows[i] \in Seq(V) /\ Len(rows[i]) = Len(fields)
    <2> TAKE i \in 1..Len(events)
    <2> DEFINE r == rows[i]
    <2>1. r = [j \in 1..Len(fields) |-> r[j]] /\ \A j \in 1..Len(fields) : r[j] \in V
      BY <1>2, <1>3
    <2> HIDE DEF r
    <2>2. r \in Seq(V) /\ Len(r) = Len(fields)
      BY <1>1, <2>1
    <2>3. QED
      BY <2>2 DEF r
  <1>5. Len(rows) = Len(events)
    BY <1>1, <1>2
  <1>6. AreValues(V, rows, Len(events), Len(fields))
    BY <1>4, <1>5 DEF AreValues
  <1>7. QED
    BY <1>1, <1>6 DEF rows

\* One event takes as many values as the template has fields.
LEMMA OneBound ==
    ASSUME NEW T, NEW fields \in Seq(T), NEW E, NEW events \in Seq(E), events # <<>>
    PROVE  Len(Record!FlattenSeq(RowValues(fields, SubSeq(events, 1, 1)))) = Len(fields)
  <1> DEFINE first == SubSeq(events, 1, 1)
  <1>1. first \in Seq(E) /\ Len(first) = 1 /\ first # <<>>
    OBVIOUS
  <1> HIDE DEF first
  <1>2. PICK V : AreValues(V, RowValues(fields, first), Len(first), Len(fields))
    BY <1>1, ValuesBound
  <1> DEFINE q == RowValues(fields, first)
  <1>3. /\ Len(q) = 1 /\ \A i \in 1..1 : q[i] \in Seq(V) /\ Len(q[i]) = Len(fields)
    BY <1>1, <1>2 DEF AreValues
  <1> HIDE DEF q
  <1>4. Record!FlattenSeq(q) = q[1]
    <2>1. Len(q) \in Nat \ {0} /\ \A i \in 1..Len(q) : q[i] \in Seq(V)
      BY <1>3
    <2>2. QED
      BY <1>3, <2>1, FlatStarts
  <1>5. Len(q[1]) = Len(fields)
    BY <1>3
  <1>6. QED
    BY <1>4, <1>5 DEF first, q

\* Between the rows of a statement stands a comma, behind the tuple nothing but semicolons.
RowsOf(tuple, rows, c) == [i \in 1 .. rows |-> IF i < rows THEN tuple \o <<c>> ELSE tuple]

\* Any template and any events: a value for every place, and a place for every value.
LEMMA StatementsAgree ==
    ASSUME NEW template, Record!IsTemplate(template), NEW E, NEW events \in Seq(E),
           events # <<>>
    PROVE  Record!StatementAgrees(template, events)
  <1> DEFINE query  == Record!ParseQuery(template)
             fields == Record!Placeholders(template)
             sql    == Sql(template)
             marks  == MarksOf(sql, "VALUES")
             m      == LastOf(marks)
             rest   == SubSeq(sql, m + 1, Len(sql))
             tuple  == TupleOf(rest, ";")
             n      == Len(events)
             list   == Record!FlattenSeq(RowsOf(tuple, n, ","))
             values == RowValues(fields, events)
             bound  == Record!FlattenSeq(values)
             head   == SubSeq(sql, 1, m)
  <1>1. /\ Record!Bound(query, events) = Record!FlattenSeq(RowValues(query.fields, events))
        /\ Record!Bound(query, SubSeq(events, 1, 1))
             = Record!FlattenSeq(RowValues(query.fields, SubSeq(events, 1, 1)))
    BY Zenon DEF Record!Bound, RowValues
  <1>2. query.values # None =>
           Record!BatchSql(query, n)
             = query.values.head \o Record!FlattenSeq(RowsOf(query.values.tuple, n, ","))
    BY Zenon DEF Record!BatchSql, RowsOf
  <1>3. query.ok =>
          /\ fields # <<>> /\ query.fields = fields /\ query.sql = sql
          /\ query.values # None =>
                marks # {} /\ query.values.head = head /\ query.values.tuple = tuple
    BY QueryParsed, Zenon
  <1>4. fields # <<>> =>
          \E S, T : /\ sql \in Seq(S) /\ fields \in Seq(T) /\ Record!Marks(sql) = Len(fields)
    <2> SUFFICES ASSUME fields # <<>>
                 PROVE  \E S, T : /\ sql \in Seq(S) /\ fields \in Seq(T)
                                  /\ Record!Marks(sql) = Len(fields)
      OBVIOUS
    <2>1. Len(template) # 0
      <3> SUFFICES ASSUME Len(template) = 0 PROVE fields = <<>>
        OBVIOUS
      <3> DEFINE q == [i \in DOMAIN template |->
                          IF Record!IsPlaceholder(template[i]) THEN <<template[i].field>>
                          ELSE <<>>]
      <3>1. DOMAIN template = {}
        BY DEF Record!IsTemplate
      <3>2. q = <<>> /\ Len(q) = 0
        BY <3>1
      <3>3. fields = Record!FlattenSeq(q)
        BY Zenon DEF Record!Placeholders
      <3> HIDE DEF q, fields
      <3>4. Record!FlattenSeq(q) = q
        BY <3>2, Zenon DEF Record!FlattenSeq
      <3>5. QED
        BY <3>2, <3>3, <3>4
    <2>2. QED
      BY <2>1, PlacesMarked DEF Sql
  <1> HIDE DEF query, fields, sql, marks, m, rest, tuple, list, head
  <1> SUFFICES ASSUME query.ok
               PROVE  /\ Record!Marks(query.sql) = Len(Record!Bound(query, SubSeq(events, 1, 1)))
                      /\ (query.values # None /\ Record!Marks(query.values.head) = 0) =>
                            /\ Record!Marks(Record!BatchSql(query, n))
                                 = Len(Record!Bound(query, events))
                            /\ SubSeq(Record!BatchSql(query, n), 1,
                                      Len(query.values.head \o query.values.tuple))
                                 = query.values.head \o query.values.tuple
    BY Zenon DEF Record!StatementAgrees, query
  <1>6. PICK S, T : sql \in Seq(S) /\ fields \in Seq(T) /\ Record!Marks(sql) = Len(fields)
    BY <1>3, <1>4
  <1>7. Record!Marks(query.sql) = Len(Record!Bound(query, SubSeq(events, 1, 1)))
    BY <1>1, <1>3, <1>6, OneBound
  <1>8. ASSUME query.values # None, Record!Marks(query.values.head) = 0
        PROVE  /\ Record!Marks(Record!BatchSql(query, n)) = Len(Record!Bound(query, events))
               /\ SubSeq(Record!BatchSql(query, n), 1,
                         Len(query.values.head \o query.values.tuple))
                    = query.values.head \o query.values.tuple
    <2>1. /\ marks # {} /\ query.values.head = head /\ query.values.tuple = tuple
          /\ Record!Marks(head) = 0
      BY <1>3, <1>8
    <2>2. m \in 0..Len(sql) /\ rest \in Seq(S)
      <3>1. Len(sql) \in Nat /\ marks \subseteq 1..Len(sql) /\ marks \subseteq 0..Len(sql)
        BY <1>6 DEF marks, MarksOf
      <3>2. \E i \in marks : \A j \in marks : j <= i
        BY <2>1, <3>1, Largest
      <3>3. m \in marks
        BY <3>2, Zenon DEF m, LastOf
      <3>4. m \in 0..Len(sql)
        BY <3>1, <3>3
      <3>5. QED
        BY <1>6, <3>4, MarksSplit DEF rest
    <2>3. IsTuple(tuple, rest, ";")
      <3>1. \A c : IsTuple(TupleOf(rest, c), rest, c)
        BY <2>2, TupleFound
      <3>2. QED
        BY <3>1, Zenon DEF tuple
    <2>4. PICK V : AreValues(V, values, n, Len(fields))
      BY <1>6, ValuesBound
    <2>5. n \in Nat \ {0}
      BY ValuesBound
    <2>6. \A c : AreRows(RowsOf(tuple, n, c), tuple, c) /\ Len(RowsOf(tuple, n, c)) = n
      BY <2>5 DEF AreRows, RowsOf
    <2>7. \A c, d : (c # "?" /\ d # "?" /\ IsTuple(tuple, rest, d)) =>
             StatementMatches(head, tuple, Record!FlattenSeq(RowsOf(tuple, n, c)), Len(bound))
      <3> SUFFICES ASSUME NEW c, NEW d, c # "?", d # "?", IsTuple(tuple, rest, d)
                   PROVE  StatementMatches(head, tuple, Record!FlattenSeq(RowsOf(tuple, n, c)),
                                           Len(bound))
        OBVIOUS
      <3>1. StatementFits(S, sql, m, d, tuple, c, RowsOf(tuple, n, c), V, values)
        BY <1>6, <2>1, <2>2, <2>4, <2>6 DEF StatementFits, head, rest
      <3>2. QED
        BY <3>1, StatementOfRows DEF head
    <2>8. "," # "?" /\ ";" # "?"
      BY Zenon
    <2>9. /\ Record!Marks(head \o list) = Len(bound)
          /\ SubSeq(head \o list, 1, Len(head \o tuple)) = head \o tuple
      BY <2>3, <2>7, <2>8, Zenon DEF list, StatementMatches
    <2>10. Record!BatchSql(query, n) = head \o list
      BY <1>2, <1>8, <2>1, Zenon DEF list
    <2>11. Record!Bound(query, events) = bound
      BY <1>1, <1>3
    <2>12. QED
      BY <2>1, <2>9, <2>10, <2>11
  <1>9. QED
    BY <1>7, <1>8

-----------------------------------------------------------------------------

\* Whatever is configured and whatever a producer says, an event is faithful to
\* what it is made of (http_polling/request.rs, sinks/otel.rs, sinks/clickhouse.rs,
\* sinks/kafka.rs, transformers/vrl_purl.rs, event.rs); null and the text "0" are not maps.
THEOREM EventsKeepFaith ==
    ASSUME ~IsFunction(None), ~IsFunction(Zero)
    PROVE  Spec => []EventsFaithful
  <1> DEFINE Parts == {"poll", "log", "sql", "broker", "purl", "id"}
             Inv == part \in Parts => input \in EventInputs[part]
  <1>1. Init => Inv
    BY DEF Init
  <1>2. Inv /\ [Next]_vars => Inv'
    BY DEF Next, ScanNext, AckedNext, RowsNext, FetchNext, vars
  <1>3. Inv => EventsFaithful
    <2> SUFFICES ASSUME Inv PROVE EventsFaithful
      OBVIOUS
    <2>1. part = "poll" => Poll!TurnAgrees(input.config, input.window, input.state,
                                           input.program, 0, input.response, input.parsed)
      BY TurnsAgree
    <2>2. part = "log" => Record!LogRecordAgrees(input.event)
      BY EventsAssumption, RecordsAgree
    <2>3. part = "broker" => Record!BrokerAgrees(input.config, input.event, input.base,
                                                 input.about, input.valid)
      BY EventsAssumption, BrokersAgree
    <2>4. part = "purl" => Package!OnePurlPerArtifact(input.a, input.b, input.repo, input.chart,
                                                      input.revision)
      BY EventsAssumption, PurlsAgree
    <2>5. part = "id" => Package!OneIdPerEvent(input.event, input.headers, input.now,
                                               input.later)
      BY EventsAssumption, EventsKept
    <2>6. part = "sql" => Record!StatementAgrees(input.template, input.events)
      BY EventsAssumption, StatementsAgree
    <2>7. QED
      BY <2>1, <2>2, <2>3, <2>4, <2>5, <2>6 DEF EventsFaithful
  <1>4. QED
    BY <1>1, <1>2, <1>3, PTL DEF Spec
=============================================================================
