--------------------------- MODULE ClientIdProofs ---------------------------
(***************************************************************************)
(* The client IDs of any users and models name one user and one model,     *)
(* whatever their names are made of.  An ID is read from its end: the last *)
(* hyphen is where the number begins, and the characters before it are the *)
(* hash of both names, which no other names have.  What stands further to  *)
(* the front, the hash of another key included, does not matter.           *)
(*                                                                         *)
(* What Replaced does byte by byte takes an induction.  The library has    *)
(* its principle with an operator for a parameter; here it is one of sets, *)
(* from the order of the numbers.                                          *)
(***************************************************************************)
EXTENDS ClientIds, SequenceTheorems, WellFoundedInduction, TLAPS

(***************************************************************************)
(* Induction, over a set of numbers.                                       *)
(***************************************************************************)

\* A set of numbers that is not empty has a least one.
LEMMA LeastNumber ==
  ASSUME NEW T, T \subseteq Nat, T # {}
  PROVE  \E x \in T : \A y \in T : ~ (y < x)
<1> DEFINE Smaller == OpToRel(<, Nat)
<1>1. IsWellFoundedOn(Smaller, Nat)
  BY NatLessThanWellFounded
<1>2. \A x, y \in Nat : <<y, x>> \in Smaller <=> y < x
  BY DEF OpToRel
<1> HIDE DEF Smaller
<1>3. \E x \in T : \A y \in T : <<y, x>> \notin Smaller
  BY <1>1, WFMin
<1>4. QED
  BY <1>2, <1>3

\* A set with 0, and with the successor of each of its members, has all numbers.
LEMMA SetInduction ==
  ASSUME NEW T, T \subseteq Nat, 0 \in T, \A n \in T : n + 1 \in T
  PROVE  T = Nat
<1> SUFFICES ASSUME T # Nat PROVE FALSE
  OBVIOUS
<1>1. PICK x \in Nat \ T : \A y \in Nat \ T : ~ (y < x)
  BY LeastNumber
<1>2. x - 1 \in T /\ x = (x - 1) + 1
  BY <1>1
<1>3. QED
  BY <1>1, <1>2

(***************************************************************************)
(* What a name is turned into.                                             *)
(***************************************************************************)

LEMMA WordsAreValid ==
  /\ Dash \in Seq(ValidBytes) /\ Len(Dash) = 1 /\ Dash[1] = "-"
  /\ <<"u", "s", "e", "r", "-">> \in Seq(ValidBytes)
  /\ <<"-", "a", "t", "-">> \in Seq(ValidBytes)
BY WrittenIsValid DEF Dash

\* Each byte is replaced by valid ones.
LEMMA ReplacementIsValid ==
  ASSUME NEW ch PROVE Replacement(ch) \in Seq(ValidBytes)
BY WordsAreValid DEF Replacement

\* And so is a string: the recursive function in Replaced is there for each number of bytes
\* (<1>1 to <1>5), and what it yields is valid.
LEMMA ReplacedIsValid ==
  ASSUME NEW C, NEW s \in Seq(C) PROVE Replaced(s) \in Seq(ValidBytes)
<1> DEFINE Steps(f, k) == \A n \in 0..k : f[n] = IF n = 0 THEN <<>> ELSE f[n - 1] \o Replacement(s[n])
           upTo == CHOOSE f : f = [n \in 0..Len(s) |->
                                     IF n = 0 THEN <<>> ELSE f[n - 1] \o Replacement(s[n])]
<1>1. \A k \in Nat : \E f \in [0..k -> Seq(ValidBytes)] : Steps(f, k)
  <2> DEFINE T == {k \in Nat : \E f \in [0..k -> Seq(ValidBytes)] : Steps(f, k)}
  <2>1. 0 \in T
    <3>1. [n \in 0..0 |-> <<>>] \in [0..0 -> Seq(ValidBytes)]
      OBVIOUS
    <3>2. Steps([n \in 0..0 |-> <<>>], 0)
      OBVIOUS
    <3>3. QED
      BY <3>1, <3>2
  <2>2. ASSUME NEW k \in T PROVE k + 1 \in T
    <3>1. PICK f \in [0..k -> Seq(ValidBytes)] : Steps(f, k)
      OBVIOUS
    <3> DEFINE next == f[k] \o Replacement(s[k + 1])
               g == [n \in 0..(k + 1) |-> IF n = k + 1 THEN next ELSE f[n]]
    <3>2. k \in Nat /\ next \in Seq(ValidBytes)
      BY ReplacementIsValid, ConcatProperties
    <3> HIDE DEF next
    <3>3. g \in [0..(k + 1) -> Seq(ValidBytes)]
      BY <3>2
    <3>4. ASSUME NEW n \in 0..(k + 1)
          PROVE  g[n] = IF n = 0 THEN <<>> ELSE g[n - 1] \o Replacement(s[n])
      <4>1. CASE n = k + 1
        <5>1. g[n] = next /\ n # 0 /\ g[n - 1] = f[k]
          BY <3>2, <4>1
        <5>2. QED
          BY <4>1, <5>1 DEF next
      <4>2. CASE n # k + 1
        <5>1. n \in 0..k /\ g[n] = f[n] /\ (n # 0 => g[n - 1] = f[n - 1])
          BY <3>2, <4>2
        <5>2. QED
          BY <3>1, <5>1
      <4>3. QED
        BY <4>1, <4>2
    <3>5. Steps(g, k + 1)
      BY <3>4
    <3> HIDE DEF g, Steps
    <3>6. k + 1 \in Nat /\ \E h \in [0..(k + 1) -> Seq(ValidBytes)] : Steps(h, k + 1)
      BY <3>3, <3>5
    <3>7. QED
      BY <3>6
  <2> HIDE DEF T
  <2>3. T = Nat
    BY <2>1, <2>2, SetInduction DEF T
  <2>4. QED
    BY <2>3 DEF T
<1>2. Len(s) \in Nat
  OBVIOUS
<1>3. PICK f \in [0..Len(s) -> Seq(ValidBytes)] : Steps(f, Len(s))
  BY <1>1, <1>2
<1>4. f = [n \in 0..Len(s) |-> IF n = 0 THEN <<>> ELSE f[n - 1] \o Replacement(s[n])]
  BY <1>3
<1>5. upTo = [n \in 0..Len(s) |-> IF n = 0 THEN <<>> ELSE upTo[n - 1] \o Replacement(s[n])]
  BY <1>4
<1> HIDE DEF upTo
<1>6. \A n \in 0..Len(s) : upTo[n] \in Seq(ValidBytes)
  <2> DEFINE T == {n \in Nat : n <= Len(s) => upTo[n] \in Seq(ValidBytes)}
  <2>1. 0 \in T
    BY <1>2, <1>5
  <2>2. ASSUME NEW n \in T PROVE n + 1 \in T
    <3> SUFFICES ASSUME n + 1 <= Len(s) PROVE upTo[n + 1] \in Seq(ValidBytes)
      OBVIOUS
    <3>1. upTo[n] \in Seq(ValidBytes)
      BY <1>2
    <3>2. upTo[n + 1] = upTo[n] \o Replacement(s[n + 1])
      <4>1. n + 1 \in 0..Len(s) /\ n + 1 # 0 /\ (n + 1) - 1 = n
        BY <1>2
      <4>2. QED
        BY <1>5, <4>1
    <3>3. QED
      BY <3>1, <3>2, ReplacementIsValid, ConcatProperties
  <2> HIDE DEF T
  <2>3. T = Nat
    BY <2>1, <2>2, SetInduction DEF T
  <2>4. QED
    BY <1>2, <2>3 DEF T
<1>7. Replaced(s) = upTo[Len(s)]
  BY DEF Replaced, upTo
<1>8. QED
  BY <1>2, <1>6, <1>7

LEMMA SanitizedIsValid ==
  ASSUME NEW s \in Usernames \cup ModelNames
  PROVE  Sanitize(s) \in Seq(ValidBytes)
<1>1. s \in Seq(Bytes)
  BY NamesAreStrings
<1>2. CASE Valid(s)
  BY <1>1, <1>2 DEF Valid, Sanitize
<1>3. CASE ~ Valid(s)
  <2>1. Replaced(s) \in Seq(ValidBytes)
    BY <1>1, ReplacedIsValid
  <2>2. Digest[<<s>>] \in Seq(ValidBytes)
    BY WrittenIsValid
  <2>3. Replaced(s) \o Dash \in Seq(ValidBytes)
    BY <2>1, WordsAreValid, ConcatProperties
  <2>4. QED
    BY <1>3, <2>2, <2>3, ConcatProperties DEF Sanitize
<1>4. QED
  BY <1>2, <1>3

LEMMA FrontIsValid ==
  ASSUME NEW u \in Usernames, NEW m \in ModelNames
  PROVE  Front(u, m) \in Seq(ValidBytes)
<1> DEFINE user == <<"u", "s", "e", "r", "-">>
<1>1. /\ user \in Seq(ValidBytes) /\ Dash \in Seq(ValidBytes)
      /\ Sanitize(u) \in Seq(ValidBytes) /\ Sanitize(m) \in Seq(ValidBytes)
  BY WordsAreValid, SanitizedIsValid
<1>2. \A s, t \in Seq(ValidBytes) : s \o t \in Seq(ValidBytes)
  BY ConcatProperties
<1> HIDE DEF user
<1>3. user \o Sanitize(u) \in Seq(ValidBytes)
  BY <1>1, <1>2
<1>4. user \o Sanitize(u) \o Dash \in Seq(ValidBytes)
  BY <1>1, <1>2, <1>3
<1>5. user \o Sanitize(u) \o Dash \o Sanitize(m) \in Seq(ValidBytes)
  BY <1>1, <1>2, <1>4
<1>6. user \o Sanitize(u) \o Dash \o Sanitize(m) \o Dash \in Seq(ValidBytes)
  BY <1>1, <1>2, <1>5
<1>7. QED
  BY <1>6 DEF Front, user

(***************************************************************************)
(* Reading an ID from its end.                                             *)
(***************************************************************************)

Joined(f, h, n) == ((f \o h) \o Dash) \o n

\* Where the parts of a string of three parts and a hyphen are.
Placed(w, f, h, n) ==
  /\ Len(w) = Len(f) + Len(h) + 1 + Len(n)
  /\ \A i \in 1..Len(h) : w[Len(f) + i] = h[i]
  /\ w[Len(f) + Len(h) + 1] = "-"
  /\ \A i \in 1..Len(n) : w[Len(f) + Len(h) + 1 + i] = n[i]

LEMMA Parts ==
  ASSUME NEW C, NEW f \in Seq(C), NEW h \in Seq(C), NEW n \in Seq(C), Dash \in Seq(C)
  PROVE  Joined(f, h, n) \in Seq(C) /\ Placed(Joined(f, h, n), f, h, n)
<1> DEFINE fh == f \o h
           fhd == fh \o Dash
           w == Joined(f, h, n)
<1>0. w = fhd \o n
  BY DEF Joined
<1> HIDE DEF w
<1>1. /\ fh \in Seq(C) /\ Len(fh) = Len(f) + Len(h)
      /\ \A i \in 1..(Len(f) + Len(h)) : fh[i] = IF i <= Len(f) THEN f[i] ELSE h[i - Len(f)]
  BY ConcatProperties
<1>2. Len(f) \in Nat /\ Len(h) \in Nat /\ Len(n) \in Nat
  OBVIOUS
<1>3. Len(Dash) = 1 /\ Dash[1] = "-"
  BY WordsAreValid
<1> HIDE DEF fh
<1>4. /\ fhd \in Seq(C) /\ Len(fhd) = Len(fh) + Len(Dash)
      /\ \A i \in 1..(Len(fh) + Len(Dash)) :
           fhd[i] = IF i <= Len(fh) THEN fh[i] ELSE Dash[i - Len(fh)]
  <2>1. fh \in Seq(C)
    BY <1>1
  <2>2. QED
    BY <2>1, ConcatProperties
<1> HIDE DEF fhd
<1>5. /\ w \in Seq(C) /\ Len(w) = Len(fhd) + Len(n)
      /\ \A i \in 1..(Len(fhd) + Len(n)) :
           w[i] = IF i <= Len(fhd) THEN fhd[i] ELSE n[i - Len(fhd)]
  <2>1. fhd \in Seq(C)
    BY <1>4
  <2>2. QED
    BY <1>0, <2>1, ConcatProperties
<1>6. Len(fhd) = Len(f) + Len(h) + 1
  BY <1>1, <1>2, <1>3, <1>4
<1>7. ASSUME NEW i \in 1..Len(h) PROVE w[Len(f) + i] = h[i]
  <2>1. /\ Len(f) + i \in 1..(Len(fhd) + Len(n)) /\ Len(f) + i <= Len(fhd)
        /\ Len(f) + i \in 1..(Len(fh) + Len(Dash)) /\ Len(f) + i <= Len(fh)
        /\ Len(f) + i \in 1..(Len(f) + Len(h)) /\ ~ Len(f) + i <= Len(f)
        /\ (Len(f) + i) - Len(f) = i
    BY <1>1, <1>2, <1>3, <1>6
  <2>2. w[Len(f) + i] = fhd[Len(f) + i]
    BY <1>5, <2>1
  <2>3. fhd[Len(f) + i] = fh[Len(f) + i]
    BY <1>4, <2>1
  <2>4. fh[Len(f) + i] = h[i]
    BY <1>1, <2>1
  <2>5. QED
    BY <2>2, <2>3, <2>4
<1>8. w[Len(f) + Len(h) + 1] = "-"
  <2> DEFINE at == Len(f) + Len(h) + 1
  <2>1. /\ at \in 1..(Len(fhd) + Len(n)) /\ at <= Len(fhd)
        /\ at \in 1..(Len(fh) + Len(Dash)) /\ ~ at <= Len(fh) /\ at - Len(fh) = 1
    BY <1>1, <1>2, <1>3, <1>6
  <2> HIDE DEF at
  <2>2. w[at] = fhd[at]
    BY <1>5, <2>1
  <2>3. fhd[at] = "-"
    BY <1>3, <1>4, <2>1
  <2>4. QED
    BY <2>2, <2>3 DEF at
<1>9. ASSUME NEW i \in 1..Len(n) PROVE w[Len(f) + Len(h) + 1 + i] = n[i]
  <2>1. /\ Len(fhd) + i \in 1..(Len(fhd) + Len(n)) /\ ~ Len(fhd) + i <= Len(fhd)
        /\ (Len(fhd) + i) - Len(fhd) = i
    BY <1>2, <1>6
  <2>2. w[Len(fhd) + i] = n[i]
    BY <1>5, <2>1
  <2>3. QED
    BY <1>6, <2>2
<1>10. Len(w) = Len(f) + Len(h) + 1 + Len(n)
  BY <1>5, <1>6
<1>11. QED
  BY <1>5, <1>7, <1>8, <1>9, <1>10 DEF Placed, w

\* Of two equal strings of such parts, whose last part has no hyphen, the last parts are
\* equally long: else the hyphen of one stood in the last part of the other.
LEMMA LastPart ==
  ASSUME NEW C, Dash \in Seq(C), NEW D, "-" \notin D, D \subseteq C,
         NEW f \in Seq(C), NEW h \in Seq(C), NEW n \in Seq(D),
         NEW g \in Seq(C), NEW k \in Seq(C), NEW l \in Seq(D),
         Joined(f, h, n) = Joined(g, k, l)
  PROVE  ~ Len(n) < Len(l)
<1> SUFFICES ASSUME Len(n) < Len(l) PROVE FALSE
  OBVIOUS
<1> DEFINE w == Joined(f, h, n)
           i == Len(l) - Len(n)
<1>1. n \in Seq(C) /\ l \in Seq(C)
  OBVIOUS
<1>2. Placed(w, f, h, n) /\ Placed(w, g, k, l)
  BY <1>1, Parts
<1> HIDE DEF w
<1>3. /\ Len(w) = Len(f) + Len(h) + 1 + Len(n) /\ w[Len(f) + Len(h) + 1] = "-"
      /\ Len(w) = Len(g) + Len(k) + 1 + Len(l)
      /\ \A j \in 1..Len(l) : w[Len(g) + Len(k) + 1 + j] = l[j]
  BY <1>2 DEF Placed
<1>4. /\ Len(f) \in Nat /\ Len(h) \in Nat /\ Len(n) \in Nat
      /\ Len(g) \in Nat /\ Len(k) \in Nat /\ Len(l) \in Nat
  OBVIOUS
<1>5. i \in 1..Len(l) /\ Len(g) + Len(k) + 1 + i = Len(f) + Len(h) + 1
  <2>1. Len(f) + Len(h) + 1 + Len(n) = Len(g) + Len(k) + 1 + Len(l)
    BY <1>2, <1>3
  <2>2. QED
    BY <1>4, <2>1
<1>6. l[i] = "-"
  BY <1>2, <1>3, <1>5
<1>7. l[i] \in D
  BY <1>5
<1>8. QED
  BY <1>6, <1>7

LEMMA ShapeOfIDs ==
  ASSUME NEW u \in Usernames, NEW m \in ModelNames, NEW n \in Seqs
  PROVE  /\ ClientID(u, m, n) = Joined(Front(u, m), Digest[<<u, m>>], Decimal[n])
         /\ Front(u, m) \in Seq(ValidBytes)
         /\ Digest[<<u, m>>] \in Seq(ValidBytes) /\ Len(Digest[<<u, m>>]) = HashLen
         /\ Decimal[n] \in Seq(ValidBytes \ {"-"}) /\ Decimal[n] \in Seq(ValidBytes)
<1>1. Decimal[n] \in Seq(ValidBytes \ {"-"})
  BY WrittenIsValid
<1>2. Decimal[n] \in Seq(ValidBytes)
  BY <1>1
<1>3. Digest[<<u, m>>] \in Seq(ValidBytes) /\ Len(Digest[<<u, m>>]) = HashLen
  <2>1. <<u, m>> \in Pairs
    BY DEF Pairs
  <2>2. QED
    BY <2>1, WrittenIsValid
<1>4. QED
  BY <1>1, <1>2, <1>3, FrontIsValid DEF ClientID, Prefix, Joined

\* Every ID is made of bytes a data key can hold.
LEMMA IDsAreValid ==
  ASSUME NEW u \in Usernames, NEW m \in ModelNames, NEW n \in Seqs
  PROVE  ClientID(u, m, n) \in Seq(ValidBytes) /\ Valid(ClientID(u, m, n))
<1> DEFINE id == ClientID(u, m, n)
           f == Front(u, m)
           h == Digest[<<u, m>>]
           x == Decimal[n]
<1>0. /\ id = Joined(f, h, x)
      /\ f \in Seq(ValidBytes) /\ h \in Seq(ValidBytes) /\ x \in Seq(ValidBytes)
      /\ Dash \in Seq(ValidBytes)
  BY ShapeOfIDs, WordsAreValid
<1> HIDE DEF id, f, h, x
<1>1. id \in Seq(ValidBytes) /\ Len(id) = Len(f) + Len(h) + 1 + Len(x)
  BY <1>0, Parts DEF Placed
<1>2. Len(f) \in Nat /\ Len(h) \in Nat /\ Len(x) \in Nat
  BY <1>0
<1>3. id # <<>>
  <2>1. Len(id) > 0
    BY <1>1, <1>2
  <2>2. QED
    BY <2>1
<1>4. QED
  BY <1>1, <1>3 DEF Valid, id

\* Equal IDs are of the same user and model.
LEMMA EqualIDs ==
  ASSUME NEW u \in Usernames, NEW m \in ModelNames, NEW n \in Seqs,
         NEW v \in Usernames, NEW o \in ModelNames, NEW l \in Seqs,
         ClientID(u, m, n) = ClientID(v, o, l)
  PROVE  u = v /\ m = o
<1> DEFINE id == ClientID(u, m, n)
           f == Front(u, m)
           g == Front(v, o)
           h == Digest[<<u, m>>]
           k == Digest[<<v, o>>]
           x == Decimal[n]
           y == Decimal[l]
           D == ValidBytes \ {"-"}
<1>1. /\ id = Joined(f, h, x) /\ id = Joined(g, k, y)
      /\ f \in Seq(ValidBytes) /\ h \in Seq(ValidBytes) /\ x \in Seq(D)
      /\ g \in Seq(ValidBytes) /\ k \in Seq(ValidBytes) /\ y \in Seq(D)
      /\ x \in Seq(ValidBytes) /\ y \in Seq(ValidBytes)
      /\ Len(h) = HashLen /\ Len(k) = HashLen
  BY ShapeOfIDs
<1>2. Dash \in Seq(ValidBytes) /\ "-" \notin D /\ D \subseteq ValidBytes
  BY WordsAreValid
<1> HIDE DEF id, f, g, h, k, x, y, D
<1>3. ~ Len(x) < Len(y)
  BY <1>1, <1>2, LastPart
<1>4. ~ Len(y) < Len(x)
  BY <1>1, <1>2, LastPart
<1>5. Len(f) \in Nat /\ Len(g) \in Nat /\ Len(x) \in Nat /\ Len(y) \in Nat /\ HashLen \in Nat
  BY <1>1, BoundsAreNats
<1>6. Placed(id, f, h, x) /\ Placed(id, g, k, y)
  BY <1>1, <1>2, Parts
<1>7. /\ Len(id) = Len(f) + Len(h) + 1 + Len(x) /\ \A i \in 1..Len(h) : id[Len(f) + i] = h[i]
      /\ Len(id) = Len(g) + Len(k) + 1 + Len(y) /\ \A i \in 1..Len(k) : id[Len(g) + i] = k[i]
  BY <1>6 DEF Placed
<1>8. Len(f) = Len(g)
  BY <1>1, <1>3, <1>4, <1>5, <1>7
<1>9. \A i \in 1..HashLen : h[i] = k[i]
  BY <1>1, <1>6, <1>7, <1>8
<1>10. h = k
  BY <1>1, <1>9, SeqEqual
<1>11. <<u, m>> = <<v, o>>
  <2>1. <<u, m>> \in Pairs /\ <<v, o>> \in Pairs
    BY DEF Pairs
  <2>2. QED
    BY <1>10, <2>1, DigestsDiffer DEF h, k
<1>12. QED
  BY <1>11

(***************************************************************************)
(* The invariant.                                                          *)
(***************************************************************************)

LEMMA InvInit == Init => IInv
BY DEF Init, IInv, Composed, RefusedForLength

LEMMA CreatePreserves ==
  ASSUME IInv, NEW u \in Usernames, NEW m \in ModelNames, CreateKey(u, m)
  PROVE  IInv'
<1>1. PICK n \in Seqs :
        /\ secret' = [secret EXCEPT ![m] = @ \cup {ClientID(u, m, n)}]
        /\ meta' \in {meta, [meta EXCEPT ![m] = @ \cup {ClientID(u, m, n)}]}
        /\ minted' = minted \cup {[id |-> ClientID(u, m, n), user |-> u, model |-> m]}
  BY DEF CreateKey
<1> DEFINE id == ClientID(u, m, n)
           x == [id |-> id, user |-> u, model |-> m]
<1>2. id \in Seq(ValidBytes)
  BY IDsAreValid
<1>3. refused' = refused
  BY DEF CreateKey
<1>4. x.id = id /\ x.model = m /\ x = [id |-> ClientID(u, m, n), user |-> u, model |-> m]
  OBVIOUS
<1>5. \A y \in minted' :
        \E v \in Usernames, o \in ModelNames, k \in Seqs :
          y = [id |-> ClientID(v, o, k), user |-> v, model |-> o]
  BY <1>1, <1>4 DEF IInv, Composed
<1> HIDE DEF id, x
<1>6. minted' = minted \cup {x} /\ secret' = [secret EXCEPT ![m] = @ \cup {id}]
      /\ meta' \in {meta, [meta EXCEPT ![m] = @ \cup {id}]}
  BY <1>1 DEF id, x
<1>7. /\ secret' \in [ModelNames -> SUBSET Seq(ValidBytes)]
      /\ meta' \in [ModelNames -> SUBSET Seq(ValidBytes)]
  BY <1>2, <1>6 DEF IInv, Composed
<1>8. \A o \in ModelNames : \A i \in secret'[o] : \E y \in minted' : y.id = i /\ y.model = o
  BY <1>4, <1>6 DEF IInv, Composed
<1>9. QED
  BY <1>3, <1>5, <1>7, <1>8 DEF IInv, Composed, RefusedForLength

LEMMA RefusalPreserves ==
  ASSUME IInv, NEW u \in Usernames, NEW m \in ModelNames, CreateRefused(u, m)
  PROVE  IInv'
<1>1. PICK n \in Seqs :
        /\ ~ IsDataKey(ClientID(u, m, n))
        /\ refused' = refused \cup {ClientID(u, m, n)}
  BY DEF CreateRefused
<1>2. Valid(ClientID(u, m, n)) /\ ClientID(u, m, n) \in Seq(ValidBytes)
  BY IDsAreValid
<1> DEFINE id == ClientID(u, m, n)
<1>3. Len(id) > KeyLimit
  <2> HIDE DEF id
  <2>1. ~ Len(id) <= KeyLimit /\ Len(id) \in Nat
    BY <1>1, <1>2 DEF IsDataKey, id
  <2>2. QED
    BY <2>1, BoundsAreNats
<1>4. RefusedForLength'
  BY <1>1, <1>3 DEF IInv, RefusedForLength
<1>5. UNCHANGED <<secret, meta, minted>>
  BY DEF CreateRefused
<1>6. QED
  BY <1>4, <1>5 DEF IInv, Composed

LEMMA RemovalPreserves ==
  ASSUME IInv, NEW m \in ModelNames,
         ModelRecreated(m) \/ \E id \in secret[m] : RevokeKey(m, id)
  PROVE  IInv'
<1>1. UNCHANGED <<minted, refused>>
  BY DEF ModelRecreated, RevokeKey
<1>2. /\ secret' \in [ModelNames -> SUBSET Seq(ValidBytes)]
      /\ meta' \in [ModelNames -> SUBSET Seq(ValidBytes)]
      /\ \A o \in ModelNames : secret'[o] \subseteq secret[o]
  BY DEF IInv, Composed, ModelRecreated, RevokeKey
<1>3. QED
  BY <1>1, <1>2 DEF IInv, Composed, RefusedForLength

LEMMA InvStep == IInv /\ [Next]_vars => IInv'
<1> SUFFICES ASSUME IInv, [Next]_vars PROVE IInv'
  OBVIOUS
<1>1. CASE UNCHANGED vars
  BY <1>1 DEF vars, IInv, Composed, RefusedForLength
<1>2. CASE Next
  <2>1. PICK m \in ModelNames :
          \/ \E u \in Usernames : CreateKey(u, m) \/ CreateRefused(u, m)
          \/ \E id \in secret[m] : RevokeKey(m, id)
          \/ ModelRecreated(m)
    BY <1>2 DEF Next
  <2>2. QED
    BY <2>1, CreatePreserves, RefusalPreserves, RemovalPreserves
<1>3. QED
  BY <1>1, <1>2

LEMMA InvHolds == Spec => []IInv
BY InvInit, InvStep, PTL DEF Spec

LEMMA MintedDiffer ==
  ASSUME IInv, NEW x \in minted, NEW y \in minted, x.id = y.id
  PROVE  x = y
<1>1. PICK u \in Usernames, m \in ModelNames, n \in Seqs :
        x = [id |-> ClientID(u, m, n), user |-> u, model |-> m]
  BY DEF IInv, Composed
<1>2. PICK v \in Usernames, o \in ModelNames, l \in Seqs :
        y = [id |-> ClientID(v, o, l), user |-> v, model |-> o]
  BY DEF IInv, Composed
<1>3. ClientID(u, m, n) = ClientID(v, o, l)
  BY <1>1, <1>2
<1>4. u = v /\ m = o
  BY <1>3, EqualIDs
<1>5. QED
  BY <1>1, <1>2, <1>3, <1>4

\* Whatever names users and models have, the hash of another key in a username included, an
\* ID is only ever written for one user and one model (createKeyOnce).
THEOREM IDsAreUnique == Spec => []IDsNameOnePrincipal
<1>1. IInv => IDsNameOnePrincipal
  BY MintedDiffer DEF IDsNameOnePrincipal
<1>2. QED
  BY <1>1, InvHolds, PTL

\* So the Secrets the gateway pools have no ID in common (createKeyOnce, revokeKeyOnce).
THEOREM PooledIDsStayApart == Spec => []PooledIDsDiffer
<1>1. ASSUME IInv PROVE PooledIDsDiffer
  <2> SUFFICES ASSUME NEW m \in ModelNames, NEW n \in ModelNames, m # n,
                      NEW id \in secret[m] \cap secret[n]
               PROVE  FALSE
    BY DEF PooledIDsDiffer
  <2>1. PICK x \in minted : x.id = id /\ x.model = m
    BY <1>1 DEF IInv, Composed
  <2>2. PICK y \in minted : y.id = id /\ y.model = n
    BY <1>1 DEF IInv, Composed
  <2>3. QED
    BY <1>1, <2>1, <2>2, MintedDiffer
<1>2. QED
  BY <1>1, InvHolds, PTL

\* And whatever bytes a username has, the API server takes its ID unless that is too long
\* (sanitizeUsernameForKey).
THEOREM OnlyLengthRefuses == Spec => []RefusedForLength
<1>1. IInv => RefusedForLength
  BY DEF IInv
<1>2. QED
  BY <1>1, InvHolds, PTL
=============================================================================
