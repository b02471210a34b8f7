---------------------------- MODULE McpServer_proofs ----------------------------
(***************************************************************************)
(* Proofs about McpServer, for any messages, registrations and levels.     *)
(***************************************************************************)
EXTENDS McpServer, Integers, TLAPS, SequenceTheorems, WellFoundedInduction

-----------------------------------------------------------------------------
(* Induction, stated of sets: no prover here instantiates a predicate. *)

\* A set of numbers has a least one.
LEMMA Least ==
  ASSUME NEW T \in SUBSET Nat, T # {}
  PROVE  \E n \in T : \A m \in T : n <= m
<1>1. PICK n \in T : \A m \in T : <<m, n>> \notin OpToRel(<, Nat)
  BY NatLessThanWellFounded, WFMin, Zenon
<1>2. \A m \in T : m < n => <<m, n>> \in OpToRel(<, Nat)
  BY DEF OpToRel
<1>3. \A m \in T : ~(m < n)
  BY <1>1, <1>2, Zenon
<1> QED
  BY <1>3

\* What holds of 0 and is passed on holds of every number.
LEMMA Induction ==
  ASSUME NEW T \in SUBSET Nat, 0 \in T, \A n \in T : n + 1 \in T
  PROVE  T = Nat
<1>1. SUFFICES ASSUME Nat \ T # {} PROVE FALSE
  OBVIOUS
<1>2. PICK n \in Nat \ T : \A m \in Nat \ T : n <= m
  BY <1>1, Least
<1> QED
  BY <1>2

\* What holds of a place when it holds of all further on holds of every place.
LEMMA Backwards ==
  ASSUME NEW n \in Nat, NEW T \in SUBSET (1 .. n),
         \A i \in 1 .. n : i + 1 .. n \subseteq T => i \in T
  PROVE  T = 1 .. n
<1>1. SUFFICES ASSUME (1 .. n) \ T # {} PROVE FALSE
  OBVIOUS
<1> DEFINE U == {m \in Nat : n - m \in (1 .. n) \ T}
<1>2. U # {}
  <2>1. PICK i \in (1 .. n) \ T : TRUE
    BY <1>1
  <2>2. n - i \in U
    BY <2>1
  <2> QED
    BY <2>2
<1>3. PICK m \in U : \A k \in U : m <= k
  BY <1>2, Least
<1>4. n - m \in 1 .. n /\ n - m \notin T
  OBVIOUS
<1>5. ASSUME NEW j \in (n - m) + 1 .. n PROVE j \in T
  <2>1. j \in 1 .. n /\ n - j \in Nat /\ ~(m <= n - j) /\ n - (n - j) = j
    BY <1>4
  <2>2. n - j \notin U
    BY <1>3, <2>1
  <2> QED
    BY <2>1, <2>2
<1> QED
  BY <1>4, <1>5

-----------------------------------------------------------------------------
(* Sequences of texts, put one after the other. *)

\* One more text, in the recursion of FlattenSeq.
FlatStep(ts, f, i) == IF i = 1 THEN ts[i] ELSE f[i-1] \o ts[i]

\* That recursion defines a function.
LEMMA FlatExists ==
  ASSUME NEW ts, NEW n \in Nat
  PROVE  \E f : f = [i \in 1 .. n |-> FlatStep(ts, f, i)]
<1> DEFINE T == {m \in Nat : \E f : f = [i \in 1 .. m |-> FlatStep(ts, f, i)]}
<1>1. 0 \in T
  <2>1. PICK f : f = [i \in 1 .. 0 |-> ts]
    OBVIOUS
  <2>2. f = [i \in 1 .. 0 |-> FlatStep(ts, f, i)]
    BY <2>1
  <2> QED
    BY <2>2
<1>2. ASSUME NEW m \in T PROVE m + 1 \in T
  <2>1. PICK f : f = [i \in 1 .. m |-> FlatStep(ts, f, i)]
    OBVIOUS
  <2>2. PICK g : g = [i \in 1 .. m + 1 |-> IF i = m + 1 THEN FlatStep(ts, f, i) ELSE f[i]]
    OBVIOUS
  <2>3. \A i \in 1 .. m : g[i] = f[i]
    BY <2>2
  <2>4. \A i \in 1 .. m + 1 : FlatStep(ts, g, i) = FlatStep(ts, f, i)
    BY <2>3 DEF FlatStep
  <2>5. \A i \in 1 .. m + 1 : g[i] = FlatStep(ts, g, i)
    BY <2>1, <2>2, <2>4
  <2>6. g = [i \in 1 .. m + 1 |-> FlatStep(ts, g, i)]
    BY <2>2, <2>5
  <2> QED
    BY <2>6
<1> HIDE DEF T
<1>3. T = Nat
  BY <1>1, <1>2, Induction DEF T
<1> QED
  BY <1>3 DEF T

\* FlattenSeq is its last value.
LEMMA Flat ==
  ASSUME NEW ts, Len(ts) \in Nat \ {0}
  PROVE  \E f : /\ \A i \in 1 .. Len(ts) : f[i] = IF i = 1 THEN ts[i] ELSE f[i-1] \o ts[i]
                /\ FlattenSeq(ts) = f[Len(ts)]
<1> DEFINE f == CHOOSE f : f = [i \in 1 .. Len(ts) |-> IF i = 1 THEN ts[i] ELSE f[i-1] \o ts[i]]
<1>1. \E g : g = [i \in 1 .. Len(ts) |-> IF i = 1 THEN ts[i] ELSE g[i-1] \o ts[i]]
  BY FlatExists DEF FlatStep
<1>2. FlattenSeq(ts) = f[Len(ts)]
  BY DEF FlattenSeq
<1>3. f = [i \in 1 .. Len(ts) |-> IF i = 1 THEN ts[i] ELSE f[i-1] \o ts[i]]
  BY <1>1
<1> HIDE DEF f
<1> QED
  BY <1>2, <1>3

\* Texts are put one after the other from the left.
LEMMA Flattening ==
  ASSUME NEW S, NEW ts \in Seq(Seq(S)), NEW t \in Seq(S)
  PROVE  /\ FlattenSeq(<<>>) = <<>>
         /\ FlattenSeq(ts) \in Seq(S)
         /\ FlattenSeq(Append(ts, t)) = FlattenSeq(ts) \o t
<1>1. FlattenSeq(<<>>) = <<>>
  BY DEF FlattenSeq
<1> DEFINE us == Append(ts, t)
<1>2. /\ Len(us) = Len(ts) + 1 /\ us[Len(us)] = t /\ Len(ts) \in Nat /\ Len(us) \in Nat \ {0}
      /\ \A i \in 1 .. Len(ts) : us[i] = ts[i] /\ ts[i] \in Seq(S)
  BY AppendProperties, LenProperties, ElementOfSeq
<1> HIDE DEF us
<1>3. PICK g : /\ \A i \in 1 .. Len(us) : g[i] = IF i = 1 THEN us[i] ELSE g[i-1] \o us[i]
               /\ FlattenSeq(us) = g[Len(us)]
  BY <1>2, Flat
<1>4. CASE Len(ts) = 0
  <2>1. ts = <<>>
    BY <1>4
  <2>2. FlattenSeq(us) = t
    BY <1>2, <1>3, <1>4
  <2>3. <<>> \o t = t
    BY ConcatEmptySeq
  <2>4. FlattenSeq(ts) = <<>> /\ <<>> \in Seq(S)
    BY <1>1, <2>1
  <2> QED
    BY <1>1, <2>2, <2>3, <2>4 DEF us
<1>5. CASE Len(ts) # 0
  <2>1. PICK f : /\ \A i \in 1 .. Len(ts) : f[i] = IF i = 1 THEN ts[i] ELSE f[i-1] \o ts[i]
                 /\ FlattenSeq(ts) = f[Len(ts)]
    BY <1>2, <1>5, Flat
  <2> DEFINE T == {n \in Nat : n + 1 <= Len(ts) => f[n + 1] = g[n + 1] /\ f[n + 1] \in Seq(S)}
  <2>2. 0 \in T
    BY <1>2, <1>3, <1>5, <2>1
  <2>3. ASSUME NEW n \in T PROVE n + 1 \in T
    <3>1. SUFFICES ASSUME n + 2 <= Len(ts)
                   PROVE  f[n + 2] = g[n + 2] /\ f[n + 2] \in Seq(S)
      OBVIOUS
    <3> /\ n \in Nat /\ n + 2 \in 1 .. Len(ts) /\ n + 2 \in 1 .. Len(us) /\ n + 2 # 1 /\ (n + 2) - 1 = n + 1
      BY <1>2, <3>1
    <3>2. /\ f[n + 2] = f[n + 1] \o ts[n + 2] /\ g[n + 2] = g[n + 1] \o us[n + 2]
          /\ us[n + 2] = ts[n + 2] /\ ts[n + 2] \in Seq(S)
      <4>1. f[n + 2] = f[(n + 2) - 1] \o ts[n + 2]
        BY <2>1
      <4>2. g[n + 2] = g[(n + 2) - 1] \o us[n + 2]
        BY <1>3
      <4> QED
        BY <1>2, <4>1, <4>2
    <3>3. f[n + 1] = g[n + 1] /\ f[n + 1] \in Seq(S)
      BY <3>1
    <3> QED
      BY <3>2, <3>3, ConcatProperties
  <2> HIDE DEF T
  <2>4. T = Nat
    BY <2>2, <2>3, Induction DEF T
  <2>5. f[Len(ts)] = g[Len(ts)] /\ f[Len(ts)] \in Seq(S)
    <3>1. Len(ts) - 1 \in T /\ Len(ts) - 1 + 1 = Len(ts)
      BY <1>2, <1>5, <2>4
    <3> QED
      BY <1>2, <3>1 DEF T
  <2>6. g[Len(us)] = g[Len(ts)] \o t
    <3>1. Len(us) \in 1 .. Len(us) /\ Len(us) # 1 /\ Len(us) - 1 = Len(ts)
      BY <1>2, <1>5
    <3> QED
      BY <1>2, <1>3, <3>1
  <2> QED
    BY <1>1, <1>3, <2>1, <2>5, <2>6 DEF us
<1> QED
  BY <1>4, <1>5, <1>2

\* The texts so far and the rest of a URI make the URI.
Spelled(ts, rest, uri) == FlattenSeq(ts) \o rest = uri

\* They still do when one more text is taken from the rest.
LEMMA Spelling ==
  ASSUME NEW S, NEW ts \in Seq(Seq(S)), NEW t \in Seq(S), NEW left \in Seq(S), NEW rest, NEW uri,
         Spelled(ts, rest, uri), rest = t \o left
  PROVE  Spelled(Append(ts, t), left, uri)
<1>1. PICK flat : flat = FlattenSeq(ts) /\ flat \in Seq(S)
  BY Flattening
<1>2. FlattenSeq(Append(ts, t)) = flat \o t
  BY <1>1, Flattening
<1>3. (flat \o t) \o left = flat \o (t \o left)
  BY <1>1, ConcatAssociative
<1> QED
  BY <1>1, <1>2, <1>3 DEF Spelled

-----------------------------------------------------------------------------
(* Templates. *)

\* What a template consists of, over the characters S.
Pieces(S) == {Literal(t) : t \in Seq(S)} \cup {Variable(t) : t \in Seq(S)}

\* One place of a pattern, in the recursion of Parse.
PieceStep(pattern, f, i) ==
  IF Braces(pattern, i) = {} THEN Text(pattern, i, Len(pattern))
  ELSE LET oc == CHOOSE b \in Braces(pattern, i) : TRUE
       IN Text(pattern, i, oc[1] - 1) \o <<Variable(SubSeq(pattern, oc[1] + 1, oc[2] - 1))>>
            \o f[oc[2] + 1]

\* A pair of braces is further on, in its order.
LEMMA Bracing ==
  ASSUME NEW pattern, Len(pattern) \in Nat, NEW i \in Nat, NEW oc \in Braces(pattern, i)
  PROVE  /\ oc[1] \in i .. Len(pattern) /\ oc[2] \in oc[1] .. Len(pattern)
<1>1. oc \in First(pattern, i, Open) \X (i .. Len(pattern)) /\ oc[2] \in First(pattern, oc[1], Close)
  BY DEF Braces
<1>2. oc[1] \in First(pattern, i, Open)
  BY <1>1
<1> QED
  BY <1>1, <1>2 DEF First

\* What is parsed at a place are pieces, if what is parsed further on are.
LEMMA PieceTypes ==
  ASSUME NEW S, NEW pattern \in Seq(S), NEW i \in 1 .. Len(pattern) + 1, NEW f,
         \A j \in i + 1 .. Len(pattern) + 1 : f[j] \in Seq(Pieces(S))
  PROVE  PieceStep(pattern, f, i) \in Seq(Pieces(S))
<1> DEFINE end == Len(pattern)
<1>1. end \in Nat /\ pattern \in [1 .. end -> S]
  BY LenProperties
<1> HIDE DEF end
<1>2. \A t \in Seq(S) : <<Literal(t)>> \in Seq(Pieces(S)) /\ <<Variable(t)>> \in Seq(Pieces(S))
  <2>1. \A P : \A p \in P : <<p>> \in Seq(P)
    OBVIOUS
  <2>2. \A t \in Seq(S) : Literal(t) \in Pieces(S) /\ Variable(t) \in Pieces(S)
    BY DEF Pieces
  <2> QED
    BY <2>1, <2>2
<1>3. ASSUME NEW k \in 0 .. end
      PROVE  Text(pattern, i, k) \in Seq(Pieces(S))
  <2>1. SubSeq(pattern, i, k) \in Seq(S)
    BY <1>1, SubSeqProperties DEF end
  <2>2. <<>> \in Seq(Pieces(S))
    BY EmptySeq
  <2> QED
    BY <1>2, <2>1, <2>2 DEF Text
<1>4. CASE Braces(pattern, i) = {}
  BY <1>1, <1>3, <1>4 DEF PieceStep, end
<1>5. CASE Braces(pattern, i) # {}
  <2>1. PICK oc : oc = CHOOSE b \in Braces(pattern, i) : TRUE
    OBVIOUS
  <2>2. oc[1] \in i .. end /\ oc[2] \in oc[1] .. end
    BY <1>1, <1>5, <2>1, Bracing DEF end
  <2>3. SubSeq(pattern, oc[1] + 1, oc[2] - 1) \in Seq(S)
    BY <1>1, <2>2, SubSeqProperties
  <2>4. oc[1] - 1 \in 0 .. end /\ oc[2] + 1 \in i + 1 .. end + 1
    BY <1>1, <2>2 DEF end
  <2>5. /\ Text(pattern, i, oc[1] - 1) \in Seq(Pieces(S)) /\ f[oc[2] + 1] \in Seq(Pieces(S))
        /\ <<Variable(SubSeq(pattern, oc[1] + 1, oc[2] - 1))>> \in Seq(Pieces(S))
    BY <1>2, <1>3, <2>3, <2>4 DEF end
  <2>6. PieceStep(pattern, f, i) =
          Text(pattern, i, oc[1] - 1) \o <<Variable(SubSeq(pattern, oc[1] + 1, oc[2] - 1))>>
            \o f[oc[2] + 1]
    BY <1>5, <2>1 DEF PieceStep
  <2> QED
    BY <2>5, <2>6, ConcatProperties
<1> QED
  BY <1>4, <1>5

\* Parsing from any place on is defined.
LEMMA PiecesExist ==
  ASSUME NEW pattern, Len(pattern) \in Nat
  PROVE  \A n \in Nat : n <= Len(pattern) =>
           \E f : f = [i \in Len(pattern) + 1 - n .. Len(pattern) + 1 |-> PieceStep(pattern, f, i)]
<1> DEFINE end == Len(pattern)
<1>0. end \in Nat
  OBVIOUS
<1> HIDE DEF end
<1> DEFINE Is(f, n) == f = [i \in end + 1 - n .. end + 1 |-> PieceStep(pattern, f, i)]
<1> DEFINE T == {n \in Nat : n <= end => \E f : Is(f, n)}
<1>3. ASSUME NEW i \in 1 .. end + 1, NEW f, NEW g, \A j \in i + 1 .. end + 1 : f[j] = g[j]
      PROVE  PieceStep(pattern, f, i) = PieceStep(pattern, g, i)
  <2>1. CASE Braces(pattern, i) = {}
    BY <2>1 DEF PieceStep
  <2>2. CASE Braces(pattern, i) # {}
    <3>1. PICK oc : oc = CHOOSE b \in Braces(pattern, i) : TRUE
      OBVIOUS
    <3>2. oc[1] \in i .. end /\ oc[2] \in oc[1] .. end
      BY <1>0, <2>2, <3>1, Bracing DEF end
    <3>3. f[oc[2] + 1] = g[oc[2] + 1]
      BY <1>0, <1>3, <3>2
    <3> QED
      BY <2>2, <3>1, <3>3 DEF PieceStep
  <2> QED
    BY <2>1, <2>2
<1>4. ASSUME NEW n \in Nat, n <= end, NEW f, n # 0 => Is(f, n - 1)
      PROVE  \E g : Is(g, n)
  <2> DEFINE at == end + 1 - n
  <2>1. PICK g : g = [i \in at .. end + 1 |-> IF i = at THEN PieceStep(pattern, f, at) ELSE f[i]]
    OBVIOUS
  <2>2. at \in 1 .. end + 1 /\ end + 1 - (n - 1) = at + 1
    BY <1>0, <1>4
  <2> HIDE DEF at
  <2>3. \A i \in at + 1 .. end + 1 : g[i] = f[i] /\ f[i] = PieceStep(pattern, f, i)
    BY <1>0, <1>4, <2>1, <2>2 DEF at
  <2>4. \A i \in at .. end + 1 : PieceStep(pattern, g, i) = PieceStep(pattern, f, i)
    <3>1. SUFFICES ASSUME NEW i \in at .. end + 1
                   PROVE  PieceStep(pattern, g, i) = PieceStep(pattern, f, i)
      OBVIOUS
    <3>2. i \in 1 .. end + 1 /\ \A j \in i + 1 .. end + 1 : g[j] = f[j]
      BY <1>0, <2>2, <2>3
    <3> QED
      BY <1>3, <3>2
  <2>5. \A i \in at .. end + 1 : g[i] = PieceStep(pattern, g, i)
    BY <1>0, <2>1, <2>2, <2>3, <2>4
  <2>6. g = [i \in at .. end + 1 |-> PieceStep(pattern, g, i)]
    BY <2>1, <2>5
  <2> QED
    BY <2>6 DEF at
<1>5. 0 \in T
  BY <1>4
<1>6. ASSUME NEW n \in T PROVE n + 1 \in T
  <2>1. CASE n + 1 <= end
    <3>1. PICK f : Is(f, n)
      BY <1>0, <2>1
    <3>2. n + 1 \in Nat /\ (n + 1) - 1 = n
      OBVIOUS
    <3> HIDE DEF Is
    <3>3. \E g : Is(g, n + 1)
      BY <1>4, <2>1, <3>1, <3>2
    <3> QED
      BY <3>2, <3>3
  <2> QED
    BY <2>1
<1> HIDE DEF T
<1>7. T = Nat
  BY <1>5, <1>6, Induction DEF T
<1> QED
  BY <1>7 DEF T, end

\* Parsing defines what is made of each place by what is made of those further on.
LEMMA Parsed ==
  ASSUME NEW pattern, Len(pattern) \in Nat
  PROVE  \E f : /\ \A i \in 1 .. Len(pattern) + 1 : f[i] = PieceStep(pattern, f, i)
               /\ Parse(pattern) = f[1]
<1> DEFINE end == Len(pattern)
<1> DEFINE f == CHOOSE f : f = [i \in 1 .. end + 1 |-> PieceStep(pattern, f, i)]
<1>1. Parse(pattern) = f[1]
  BY DEF Parse, PieceStep
<1>2. f = [i \in 1 .. end + 1 |-> PieceStep(pattern, f, i)]
  <2>1. \E g : g = [i \in end + 1 - end .. end + 1 |-> PieceStep(pattern, g, i)]
    BY PiecesExist
  <2>2. end + 1 - end = 1
    OBVIOUS
  <2>3. \E g : g = [i \in 1 .. end + 1 |-> PieceStep(pattern, g, i)]
    BY <2>1, <2>2
  <2> QED
    BY <2>3
<1> HIDE DEF f
<1> QED
  BY <1>1, <1>2

\* A pattern is parsed into pieces.
LEMMA Parsing ==
  ASSUME NEW S, NEW pattern \in Seq(S)
  PROVE  Parse(pattern) \in Seq(Pieces(S))
<1> DEFINE end == Len(pattern) + 1
<1>1. Len(pattern) \in Nat /\ end \in Nat /\ 1 \in 1 .. end
  BY LenProperties
<1>2. PICK f : (\A i \in 1 .. end : f[i] = PieceStep(pattern, f, i)) /\ Parse(pattern) = f[1]
  BY <1>1, Parsed
<1> DEFINE T == {i \in 1 .. end : f[i] \in Seq(Pieces(S))}
<1>3. ASSUME NEW i \in 1 .. end, i + 1 .. end \subseteq T
      PROVE  i \in T
  <2>1. PieceStep(pattern, f, i) \in Seq(Pieces(S))
    BY <1>3, PieceTypes
  <2> QED
    BY <1>2, <2>1
<1> HIDE DEF end, T
<1>4. T = 1 .. end
  <2>1. T \in SUBSET (1 .. end)
    BY DEF T
  <2> QED
    BY <1>1, <1>3, <2>1, Backwards
<1> QED
  BY <1>1, <1>2, <1>4 DEF T

-----------------------------------------------------------------------------
(* Patterns, put together again. *)

\* How a piece is written, and a template.
Braced(piece) == IF piece.kind = "literal" THEN piece.text ELSE <<Open>> \o piece.name \o <<Close>>
Writing(template) == [i \in DOMAIN template |-> Braced(template[i])]
Written(template) == FlattenSeq(Writing(template))

\* A piece is written in the characters of a pattern that has braces.
LEMMA Bracket ==
  ASSUME NEW S, Open \in S, Close \in S, NEW piece \in Pieces(S)
  PROVE  Braced(piece) \in Seq(S)
<1>1. CASE piece.kind = "literal"
  BY <1>1 DEF Braced, Pieces, Literal, Variable
<1>2. CASE piece.kind # "literal"
  <2>1. PICK name \in Seq(S) : name = piece.name
    BY <1>2 DEF Pieces, Literal, Variable
  <2>2. <<Open>> \in Seq(S) /\ <<Close>> \in Seq(S)
    OBVIOUS
  <2>3. <<Open>> \o name \o <<Close>> \in Seq(S)
    BY <2>2, ConcatProperties
  <2> QED
    BY <1>2, <2>1, <2>3 DEF Braced
<1> QED
  BY <1>1, <1>2

\* So is a template.
LEMMA WritingTypes ==
  ASSUME NEW S, Open \in S, Close \in S, NEW template \in Seq(Pieces(S))
  PROVE  Writing(template) \in Seq(Seq(S)) /\ Written(template) \in Seq(S)
<1>1. /\ DOMAIN template = 1 .. Len(template) /\ Len(template) \in Nat
      /\ \A i \in 1 .. Len(template) : template[i] \in Pieces(S)
  BY LenProperties, ElementOfSeq
<1>2. \A i \in 1 .. Len(template) : Braced(template[i]) \in Seq(S)
  BY <1>1, Bracket
<1>3. Writing(template) \in [1 .. Len(template) -> Seq(S)]
  BY <1>1, <1>2 DEF Writing
<1>4. Writing(template) \in Seq(Seq(S))
  BY <1>1, <1>3, SeqDef
<1>5. <<>> \in Seq(S)
  OBVIOUS
<1> QED
  BY <1>4, <1>5, Flattening DEF Written

\* One more piece is written after the others.
LEMMA WritingOn ==
  ASSUME NEW S, Open \in S, Close \in S, NEW template \in Seq(Pieces(S)), NEW piece \in Pieces(S)
  PROVE  Written(Append(template, piece)) = Written(template) \o Braced(piece)
<1> DEFINE more == Append(template, piece)
<1> DEFINE after == Append(Writing(template), Braced(piece))
<1>1. /\ more \in Seq(Pieces(S)) /\ Len(more) = Len(template) + 1 /\ Len(template) \in Nat
      /\ more[Len(template) + 1] = piece /\ \A i \in 1 .. Len(template) : more[i] = template[i]
      /\ DOMAIN more = 1 .. Len(template) + 1 /\ DOMAIN template = 1 .. Len(template)
  BY AppendProperties, LenProperties
<1>2. Writing(template) \in Seq(Seq(S)) /\ Braced(piece) \in Seq(S)
  BY WritingTypes, Bracket
<1>3. Len(Writing(template)) = Len(template)
  BY <1>1, <1>2, LenProperties DEF Writing
<1>4. /\ after \in Seq(Seq(S)) /\ Len(after) = Len(template) + 1
      /\ after[Len(template) + 1] = Braced(piece)
      /\ \A i \in 1 .. Len(template) : after[i] = Writing(template)[i]
  BY <1>2, <1>3, AppendProperties
<1>5. after = [i \in 1 .. Len(template) + 1 |-> after[i]]
  BY <1>4, LenProperties
<1> HIDE DEF more, after
<1>6. ASSUME NEW i \in 1 .. Len(template) + 1
      PROVE  after[i] = Braced(more[i])
  <2>1. CASE i = Len(template) + 1
    BY <1>1, <1>4, <2>1
  <2>2. CASE i # Len(template) + 1
    <3>1. i \in 1 .. Len(template)
      BY <1>1, <2>2
    <3> QED
      BY <1>1, <1>4, <3>1 DEF Writing
  <2> QED
    BY <2>1, <2>2
<1>7. after = Writing(more)
  BY <1>1, <1>5, <1>6 DEF Writing
<1>8. FlattenSeq(after) = FlattenSeq(Writing(template)) \o Braced(piece)
  BY <1>2, Flattening DEF after
<1> QED
  BY <1>7, <1>8 DEF Written, more

\* No pieces are written as nothing.
LEMMA WritingNone == Written(<<>>) = <<>>
<1>1. Writing(<<>>) = <<>>
  BY DEF Writing
<1> QED
  BY <1>1 DEF Written, FlattenSeq

\* A piece alone is written as itself.
LEMMA WritingOne ==
  ASSUME NEW S, Open \in S, Close \in S, NEW piece \in Pieces(S)
  PROVE  Written(<<piece>>) = Braced(piece)
<1>1. <<>> \in Seq(Pieces(S)) /\ Append(<<>>, piece) = <<piece>>
  OBVIOUS
<1>2. Written(<<piece>>) = <<>> \o Braced(piece)
  BY <1>1, WritingOn, WritingNone
<1> QED
  BY <1>2, Bracket, ConcatEmptySeq

\* Templates one after the other are written one after the other.
LEMMA WritingBoth ==
  ASSUME NEW S, Open \in S, Close \in S, NEW one \in Seq(Pieces(S)), NEW other \in Seq(Pieces(S))
  PROVE  Written(one \o other) = Written(one) \o Written(other)
<1> DEFINE Both(ps) == Written(one \o ps) = Written(one) \o Written(ps)
<1> DEFINE T == {n \in Nat : \A ps \in Seq(Pieces(S)) : Len(ps) = n => Both(ps)}
<1>1. 0 \in T
  <2>1. Written(one) \in Seq(S)
    BY WritingTypes
  <2>2. Both(<<>>)
    BY <2>1, WritingNone, ConcatEmptySeq
  <2>3. \A ps \in Seq(Pieces(S)) : Len(ps) = 0 => ps = <<>>
    OBVIOUS
  <2> QED
    BY <2>2, <2>3
<1>2. ASSUME NEW n \in T
      PROVE  n + 1 \in T
  <2>1. SUFFICES ASSUME NEW ps \in Seq(Pieces(S)), Len(ps) = n + 1
                 PROVE  Both(ps)
    OBVIOUS
  <2>2. PICK front \in Seq(Pieces(S)), piece \in Pieces(S) : ps = Append(front, piece)
    <3>1. ps # <<>>
      BY <2>1
    <3> QED
      BY <3>1, SequenceEmptyOrAppend
  <2>3. Len(front) = n
    BY <2>1, <2>2, AppendProperties, LenProperties
  <2>4. Both(front)
    BY <2>3
  <2>5. PICK all : all = one \o front /\ all \in Seq(Pieces(S))
    BY ConcatProperties
  <2>6. one \o ps = Append(all, piece)
    <3>1. ps = front \o <<piece>> /\ <<piece>> \in Seq(Pieces(S)) /\ Append(all, piece) = all \o <<piece>>
      BY <2>2, <2>5, AppendIsConcat
    <3> QED
      BY <2>5, <3>1, ConcatAssociative
  <2>7. /\ Written(one \o ps) = Written(all) \o Braced(piece)
        /\ Written(ps) = Written(front) \o Braced(piece)
    BY <2>2, <2>5, <2>6, WritingOn
  <2>8. /\ Written(one) \in Seq(S) /\ Written(front) \in Seq(S) /\ Braced(piece) \in Seq(S)
    BY WritingTypes, Bracket
  <2>9. (Written(one) \o Written(front)) \o Braced(piece) = Written(one) \o (Written(front) \o Braced(piece))
    BY <2>8, ConcatAssociative
  <2> QED
    BY <2>4, <2>5, <2>7, <2>9
<1> HIDE DEF T
<1>3. Len(other) \in T
  BY <1>1, <1>2, Induction, LenProperties DEF T
<1> QED
  BY <1>3 DEF T

\* A part of a text is one.
LEMMA WritingParts ==
  ASSUME NEW S, NEW pattern \in Seq(S),
         NEW i \in 1 .. Len(pattern) + 1, NEW k \in i - 1 .. Len(pattern)
  PROVE  SubSeq(pattern, i, k) \in Seq(S)
<1>1. Len(pattern) \in Nat
  BY LenProperties
<1>2. i \in Int /\ k \in Int /\ \A j \in i .. k : j \in 1 .. Len(pattern)
  BY <1>1
<1>3. \A j \in i .. k : pattern[j] \in S
  BY <1>2, ElementOfSeq
<1> QED
  BY <1>2, <1>3, SubSeqProperties

\* A text is written as it stands in the pattern.
LEMMA WritingTexts ==
  ASSUME NEW S, Open \in S, Close \in S, NEW pattern \in Seq(S),
         NEW i \in 1 .. Len(pattern) + 1, NEW k \in i - 1 .. Len(pattern)
  PROVE  /\ Text(pattern, i, k) \in Seq(Pieces(S))
         /\ Written(Text(pattern, i, k)) = SubSeq(pattern, i, k)
<1>0. Len(pattern) \in Nat /\ pattern \in [1 .. Len(pattern) -> S]
  BY LenProperties
<1>1. CASE i > k
  <2>1. Text(pattern, i, k) = <<>>
    BY <1>1 DEF Text
  <2>2. SubSeq(pattern, i, k) = <<>>
    BY <1>0, <1>1, SubSeqEmpty
  <2>3. <<>> \in Seq(Pieces(S))
    OBVIOUS
  <2> QED
    BY <2>1, <2>2, <2>3, WritingNone
<1>2. CASE ~(i > k)
  <2>1. PICK text : text = SubSeq(pattern, i, k) /\ text \in Seq(S)
    BY WritingParts
  <2>2. Literal(text) \in Pieces(S) /\ Braced(Literal(text)) = text
    BY <2>1 DEF Pieces, Literal, Braced
  <2>3. Text(pattern, i, k) = <<Literal(text)>>
    BY <1>2, <2>1 DEF Text
  <2> QED
    BY <2>1, <2>2, <2>3, WritingOne
<1> QED
  BY <1>1, <1>2

\* And a variable in its braces.
LEMMA WritingVariables ==
  ASSUME NEW S, Open \in S, Close \in S, NEW pattern \in Seq(S),
         NEW o \in 1 .. Len(pattern), NEW c \in o + 1 .. Len(pattern),
         pattern[o] = Open, pattern[c] = Close
  PROVE  LET variable == Variable(SubSeq(pattern, o + 1, c - 1)) IN
         variable \in Pieces(S) /\ Written(<<variable>>) = SubSeq(pattern, o, c)
<1>0. Len(pattern) \in Nat /\ pattern \in [1 .. Len(pattern) -> S]
  BY LenProperties
<1>1. PICK name : name = SubSeq(pattern, o + 1, c - 1) /\ name \in Seq(S)
  <2>1. o + 1 \in 1 .. Len(pattern) + 1 /\ c - 1 \in (o + 1) - 1 .. Len(pattern)
    BY <1>0
  <2> QED
    BY <2>1, WritingParts
<1>2. PICK variable : variable = Variable(name) /\ variable \in Pieces(S)
  BY <1>1 DEF Pieces
<1>3. Braced(variable) = <<Open>> \o name \o <<Close>>
  BY <1>2 DEF Braced, Variable
<1>4. <<Open>> \o name = SubSeq(pattern, o, c - 1)
  <2>1. c - 1 \in o .. Len(pattern)
    BY <1>0
  <2> QED
    BY <1>1, <2>1, SubSeqRecursiveFirst
<1>5. SubSeq(pattern, o, c - 1) \o <<Close>> = SubSeq(pattern, o, c)
  <2>1. c \in o .. Len(pattern)
    BY <1>0
  <2> QED
    BY <2>1, SubSeqRecursiveSecond
<1>6. Written(<<variable>>) = Braced(variable)
  BY <1>2, WritingOne
<1> QED
  BY <1>1, <1>2, <1>3, <1>4, <1>5, <1>6

\* What is made of a place is written as the pattern is from there on.
LEMMA WritingPlaces ==
  ASSUME NEW S, Open \in S, Close \in S, Open # Close, NEW pattern \in Seq(S),
         NEW i \in 1 .. Len(pattern) + 1, NEW f,
         \A j \in i + 1 .. Len(pattern) + 1 :
           f[j] \in Seq(Pieces(S)) /\ Written(f[j]) = SubSeq(pattern, j, Len(pattern))
  PROVE  Written(PieceStep(pattern, f, i)) = SubSeq(pattern, i, Len(pattern))
<1> DEFINE end == Len(pattern)
<1>0. end \in Nat
  BY LenProperties
<1> HIDE DEF end
<1>1. CASE Braces(pattern, i) = {}
  <2>1. end \in i - 1 .. end
    BY <1>0 DEF end
  <2> QED
    BY <1>1, <2>1, WritingTexts DEF PieceStep, end
<1>2. CASE Braces(pattern, i) # {}
  <2>1. PICK oc : oc = CHOOSE b \in Braces(pattern, i) : TRUE
    OBVIOUS
  <2>2. oc \in Braces(pattern, i)
    BY <1>2, <2>1
  <2>3. PICK o, c : o = oc[1] /\ c = oc[2]
    OBVIOUS
  <2>4. /\ o \in i .. end /\ c \in o .. end /\ pattern[o] = Open /\ pattern[c] = Close
    <3>1. oc \in First(pattern, i, Open) \X (i .. Len(pattern)) /\ oc[2] \in First(pattern, oc[1], Close)
      BY <2>2 DEF Braces
    <3>2. oc[1] \in First(pattern, i, Open)
      BY <3>1
    <3> QED
      BY <2>3, <3>1, <3>2 DEF First, end
  <2>5. o \in 1 .. end /\ c \in o + 1 .. end
    BY <1>0, <2>4 DEF end
  <2>6. PICK text, variable, after :
          /\ text = Text(pattern, i, o - 1)
          /\ variable = Variable(SubSeq(pattern, o + 1, c - 1))
          /\ after = f[c + 1]
    OBVIOUS
  <2>7. PieceStep(pattern, f, i) = (text \o <<variable>>) \o after
    BY <1>2, <2>1, <2>3, <2>6 DEF PieceStep
  <2>8. text \in Seq(Pieces(S)) /\ Written(text) = SubSeq(pattern, i, o - 1)
    <3>1. o - 1 \in i - 1 .. Len(pattern)
      BY <1>0, <2>4 DEF end
    <3> QED
      BY <2>6, <3>1, WritingTexts
  <2>9. variable \in Pieces(S) /\ Written(<<variable>>) = SubSeq(pattern, o, c)
    BY <2>4, <2>5, <2>6, WritingVariables DEF end
  <2>10. after \in Seq(Pieces(S)) /\ Written(after) = SubSeq(pattern, c + 1, end)
    <3>1. c + 1 \in i + 1 .. Len(pattern) + 1
      BY <1>0, <2>4 DEF end
    <3> QED
      BY <2>6, <3>1 DEF end
  <2>11. text \o <<variable>> \in Seq(Pieces(S)) /\ <<variable>> \in Seq(Pieces(S))
    <3>1. <<variable>> \in Seq(Pieces(S))
      BY <2>9
    <3> QED
      BY <2>8, <3>1, ConcatProperties
  <2>12. Written((text \o <<variable>>) \o after) = (Written(text) \o Written(<<variable>>)) \o Written(after)
    <3>1. PICK both : both = text \o <<variable>> /\ both \in Seq(Pieces(S))
      BY <2>11
    <3>2. Written(both \o after) = Written(both) \o Written(after)
      BY <2>10, <3>1, WritingBoth
    <3>3. Written(both) = Written(text) \o Written(<<variable>>)
      BY <2>8, <2>11, <3>1, WritingBoth
    <3> QED
      BY <3>1, <3>2, <3>3
  <2>13. SubSeq(pattern, i, o - 1) \o SubSeq(pattern, o, c) = SubSeq(pattern, i, c)
    <3>1. /\ i \in 1 .. Len(pattern) + 1 /\ o - 1 \in i - 1 .. Len(pattern)
          /\ c \in o - 1 .. Len(pattern) /\ (o - 1) + 1 = o
      BY <1>0, <2>4, <2>5 DEF end
    <3> QED
      BY <3>1, ConcatAdjacentSubSeq
  <2>14. SubSeq(pattern, i, c) \o SubSeq(pattern, c + 1, end) = SubSeq(pattern, i, end)
    <3>1. c \in i - 1 .. Len(pattern) /\ end \in c .. Len(pattern)
      BY <1>0, <2>4, <2>5 DEF end
    <3> QED
      BY <3>1, ConcatAdjacentSubSeq
  <2> QED
    BY <2>7, <2>8, <2>9, <2>10, <2>12, <2>13, <2>14 DEF end
<1> QED
  BY <1>1, <1>2

\* Parsing loses nothing: a template, its variables in braces again, is the pattern
\* it was parsed from, an open brace that is never closed included
\* (server/resources/template.rs:15-18, 33-47).
THEOREM ParsingKeepsPattern ==
  ASSUME NEW S, NEW pattern \in Seq(S)
  PROVE  Written(Parse(pattern)) = pattern
<1> DEFINE end == Len(pattern) + 1
<1> DEFINE C == S \cup {Open, Close}
<1>0. Open \in C /\ Close \in C /\ pattern \in Seq(C) /\ Open # Close
  BY SeqMonotonic, RegistriesAssumption
<1> HIDE DEF C
<1>1. Len(pattern) \in Nat /\ end \in Nat /\ 1 \in 1 .. end
  BY LenProperties
<1>2. PICK f : (\A i \in 1 .. end : f[i] = PieceStep(pattern, f, i)) /\ Parse(pattern) = f[1]
  BY <1>1, Parsed
<1> DEFINE T == {i \in 1 .. end :
                   f[i] \in Seq(Pieces(C)) /\ Written(f[i]) = SubSeq(pattern, i, Len(pattern))}
<1>3. ASSUME NEW i \in 1 .. end, i + 1 .. end \subseteq T
      PROVE  i \in T
  <2>1. \A j \in i + 1 .. Len(pattern) + 1 :
          f[j] \in Seq(Pieces(C)) /\ Written(f[j]) = SubSeq(pattern, j, Len(pattern))
    BY <1>3
  <2>2. PieceStep(pattern, f, i) \in Seq(Pieces(C))
    BY <1>0, <2>1, PieceTypes
  <2>3. Written(PieceStep(pattern, f, i)) = SubSeq(pattern, i, Len(pattern))
    BY <1>0, <2>1, WritingPlaces
  <2> QED
    BY <1>2, <2>2, <2>3
<1> HIDE DEF end, T
<1>4. T = 1 .. end
  <2>1. T \in SUBSET (1 .. end)
    BY DEF T
  <2> QED
    BY <1>1, <1>3, <2>1, Backwards
<1>5. Written(f[1]) = SubSeq(pattern, 1, Len(pattern))
  BY <1>1, <1>4 DEF T
<1> QED
  BY <1>2, <1>5, SubSeqFull

-----------------------------------------------------------------------------
(* What a template binds. *)

\* A URI none of which is read yet.
Begun(uri) == [rest |-> uri, bound |-> <<>>]

\* One more piece, in the recursion of Walk.
WalkOn(template, uri, f, i) == IF i = 0 THEN Begun(uri) ELSE Consume(template, f[i - 1], i)

\* That recursion defines a function.
LEMMA WalkExists ==
  ASSUME NEW template, NEW uri, NEW n \in Nat
  PROVE  \E f : f = [i \in 0 .. n |-> WalkOn(template, uri, f, i)]
<1> DEFINE Is(f, m) ==
      f = [i \in 0 .. m |-> WalkOn(template, uri, f, i)]
<1> DEFINE T == {m \in Nat : \E f : Is(f, m)}
<1>1. 0 \in T
  <2>1. PICK f : f = [i \in 0 .. 0 |-> Begun(uri)]
    OBVIOUS
  <2>2. Is(f, 0)
    BY <2>1 DEF WalkOn
  <2> QED
    BY <2>2
<1>2. ASSUME NEW m \in T PROVE m + 1 \in T
  <2>1. PICK f : Is(f, m)
    OBVIOUS
  <2>2. PICK g : g = [i \in 0 .. m + 1 |-> IF i = m + 1 THEN Consume(template, f[m], m + 1) ELSE f[i]]
    OBVIOUS
  <2>3. (\A i \in 0 .. m : g[i] = f[i]) /\ g[m + 1] = Consume(template, f[m], m + 1)
    BY <2>2
  <2>4. \A i \in 0 .. m + 1 : g[i] = WalkOn(template, uri, g, i)
    BY <2>1, <2>3 DEF WalkOn
  <2>5. Is(g, m + 1)
    BY <2>2, <2>4
  <2> QED
    BY <2>5
<1> HIDE DEF T
<1>3. T = Nat
  BY <1>1, <1>2, Induction DEF T
<1> QED
  BY <1>3 DEF T

\* A walk goes over the pieces one by one.
LEMMA Walks ==
  ASSUME NEW template, Len(template) \in Nat, NEW uri
  PROVE  \E walk : /\ walk[0] = Begun(uri)
                   /\ \A i \in 1 .. Len(template) : walk[i] = Consume(template, walk[i - 1], i)
                   /\ Walk(template, uri) = walk[Len(template)]
<1>0. \E g : g = [i \in 0 .. Len(template) |-> WalkOn(template, uri, g, i)]
  BY WalkExists
<1> DEFINE f == CHOOSE f : f = [i \in 0 .. Len(template) |-> WalkOn(template, uri, f, i)]
<1>1. Walk(template, uri) = f[Len(template)]
  BY DEF Walk, Begun, WalkOn
<1>2. f = [i \in 0 .. Len(template) |-> WalkOn(template, uri, f, i)]
  BY <1>0
<1> HIDE DEF f
<1>3. \A i \in 0 .. Len(template) : f[i] = WalkOn(template, uri, f, i)
  BY <1>2
<1>4. f[0] = Begun(uri) /\ \A i \in 1 .. Len(template) : f[i] = Consume(template, f[i - 1], i)
  BY <1>3 DEF WalkOn
<1> QED
  BY <1>1, <1>4

\* A prefix and what follows it are the whole.
LEMMA Cut ==
  ASSUME NEW S, NEW s \in Seq(S), NEW k \in 0 .. Len(s)
  PROVE  /\ SubSeq(s, 1, k) \in Seq(S) /\ SubSeq(s, k + 1, Len(s)) \in Seq(S)
         /\ Len(SubSeq(s, 1, k)) = k
         /\ SubSeq(s, 1, k) \o SubSeq(s, k + 1, Len(s)) = s
<1>1. Len(s) \in Nat /\ \A i \in 1 .. Len(s) : s[i] \in S
  BY LenProperties, ElementOfSeq
<1>2. SubSeq(s, 1, k) \in Seq(S) /\ SubSeq(s, k + 1, Len(s)) \in Seq(S)
  BY <1>1, SubSeqProperties
<1>3. Len(SubSeq(s, 1, k)) = k
  BY <1>1, SubSeqProperties
<1>4. SubSeq(s, 1, k) \o SubSeq(s, k + 1, Len(s)) = SubSeq(s, 1, Len(s))
  <2>1. 1 \in 1 .. Len(s) + 1 /\ k \in 1 - 1 .. Len(s) /\ Len(s) \in k .. Len(s)
    BY <1>1
  <2> QED
    BY <2>1, ConcatAdjacentSubSeq
<1> QED
  BY <1>2, <1>3, <1>4, SubSeqFull

\* A piece took a text from the rest of a URI, and left the rest of it.
Took(piece, rest, bound, after, text, left) ==
  /\ rest = text \o left
  /\ \/ /\ piece.kind = "literal" /\ text = piece.text
        /\ after = [rest |-> left, bound |-> bound]
     \/ /\ piece.kind = "variable" /\ text # <<>> /\ Slash \notin Chars(text)
        /\ after = [rest |-> left, bound |-> Bind(bound, piece.name, text)]

\* One piece takes a text from what is left: its own, or one it binds, which is not
\* empty and does not span a slash.
LEMMA Consuming ==
  ASSUME NEW S, NEW template \in Seq(Pieces(S)), NEW i \in 1 .. Len(template),
         NEW rest \in Seq(S), NEW bound, NEW got, got = [rest |-> rest, bound |-> bound],
         got # NoResult, Consume(template, got, i) # NoResult
  PROVE  \E text, left \in Seq(S) : Took(template[i], rest, bound, Consume(template, got, i), text, left)
<1>1. /\ Len(rest) \in Nat /\ Len(template) \in Nat
      /\ \A j \in 1 .. Len(template) : template[j] \in Pieces(S)
  BY LenProperties, ElementOfSeq
<1>2. got.rest = rest /\ got.bound = bound
  OBVIOUS
<1>3. CASE template[i].kind = "literal"
  <2>1. PICK text : text = template[i].text /\ text \in Seq(S)
    BY <1>1, <1>3 DEF Pieces, Literal, Variable
  <2>2. IsPrefix(text, rest)
    BY <1>2, <1>3, <2>1 DEF Consume
  <2>3. Len(text) \in 0 .. Len(rest) /\ text = SubSeq(rest, 1, Len(text))
    <3>1. Len(text) \in Nat /\ SubSeq(text, 1, Len(text)) = text
      BY <2>1, LenProperties, SubSeqFull
    <3> QED
      BY <1>1, <2>2, <3>1 DEF IsPrefix
  <2>4. PICK left : left = SubSeq(rest, Len(text) + 1, Len(rest))
    OBVIOUS
  <2>5. left \in Seq(S) /\ rest = text \o left
    BY <2>3, <2>4, Cut
  <2>6. Consume(template, got, i) = [rest |-> left, bound |-> bound]
    BY <1>2, <1>3, <2>1, <2>2, <2>4 DEF Consume
  <2> QED
    BY <1>3, <2>1, <2>5, <2>6 DEF Took
<1>4. CASE template[i].kind # "literal"
  <2>1. template[i].kind = "variable"
    BY <1>1, <1>4 DEF Pieces, Literal, Variable
  <2> DEFINE fits == {k \in Ends(template, i, rest) : k > 0 /\ Slash \notin Chars(SubSeq(rest, 1, k))}
  <2>2. PICK k : k = CHOOSE f \in fits : TRUE
    OBVIOUS
  <2>3. fits # {}
    BY <1>2, <1>4 DEF Consume
  <2>4. k \in fits
    BY <2>2, <2>3
  <2>5. k \in Ends(template, i, rest) /\ k > 0 /\ Slash \notin Chars(SubSeq(rest, 1, k))
    BY <2>4
  <2>6. Consume(template, got, i) =
          [rest  |-> SubSeq(rest, k + 1, Len(rest)),
           bound |-> Bind(bound, template[i].name, SubSeq(rest, 1, k))]
    BY <1>2, <1>4, <2>2, <2>3 DEF Consume
  <2> HIDE DEF fits
  <2>7. k \in 0 .. Len(rest)
    BY <1>1, <2>5 DEF Ends, Places
  <2>8. SubSeq(rest, 1, k) # <<>>
    BY <2>5, <2>7, Cut
  <2> QED
    BY <2>1, <2>5, <2>6, <2>7, <2>8, Cut DEF Took
<1> QED
  BY <1>3, <1>4

\* What a walk over the first pieces comes to, if they fit: a text for each piece,
\* its own or the one it is bound to, and what is left of the URI after them.
Walked(template, uri, n, rest, bound, texts) ==
  /\ Len(texts) = n /\ Spelled(texts, rest, uri)
  /\ \A v \in DOMAIN bound : bound[v] # <<>> /\ Slash \notin Chars(bound[v])
  /\ \A j \in 1 .. n :
       /\ template[j].kind = "literal" => texts[j] = template[j].text
       /\ template[j].kind = "variable" =>
            /\ template[j].name \in DOMAIN bound
            /\ NamesOnce(template) => texts[j] = bound[template[j].name]

\* A walk has come to what Walked says, for some texts.
WalkedTo(S, template, uri, n, got) ==
  \E rest \in Seq(S), texts \in Seq(Seq(S)) : \E bound :
    Walked(template, uri, n, rest, bound, texts) /\ got = [rest |-> rest, bound |-> bound]

\* One more piece that fits goes on to the next.
LEMMA WalkStep ==
  ASSUME NEW S, NEW template \in Seq(Pieces(S)), NEW uri, NEW i \in 1 .. Len(template),
         NEW rest \in Seq(S), NEW bound, NEW texts \in Seq(Seq(S)),
         Walked(template, uri, i - 1, rest, bound, texts),
         NEW got, got = [rest |-> rest, bound |-> bound],
         got # NoResult, Consume(template, got, i) # NoResult
  PROVE  WalkedTo(S, template, uri, i, Consume(template, got, i))
<1>0. DOMAIN template = 1 .. Len(template) /\ Len(template) \in Nat
  BY LenProperties
<1>1. /\ Len(texts) = i - 1 /\ Spelled(texts, rest, uri)
      /\ \A v \in DOMAIN bound : bound[v] # <<>> /\ Slash \notin Chars(bound[v])
      /\ \A j \in 1 .. i - 1 :
           /\ template[j].kind = "literal" => texts[j] = template[j].text
           /\ template[j].kind = "variable" =>
                /\ template[j].name \in DOMAIN bound
                /\ NamesOnce(template) => texts[j] = bound[template[j].name]
  BY DEF Walked
<1>2. PICK text \in Seq(S), left \in Seq(S) : Took(template[i], rest, bound, Consume(template, got, i), text, left)
  BY Consuming
<1> DEFINE all == Append(texts, text)
<1>3. /\ all \in Seq(Seq(S)) /\ Len(all) = i /\ all[i] = text
      /\ \A j \in 1 .. i - 1 : all[j] = texts[j]
  BY <1>0, <1>1, AppendProperties
<1>4. Spelled(all, left, uri)
  <2>1. rest = text \o left
    BY <1>2 DEF Took
  <2> QED
    BY <1>1, <2>1, Spelling
<1> HIDE DEF all
<1>5. 1 .. i = 1 .. i - 1 \cup {i}
  BY <1>0
<1>6. CASE /\ template[i].kind = "literal" /\ text = template[i].text
           /\ Consume(template, got, i) = [rest |-> left, bound |-> bound]
  <2>1. ASSUME NEW j \in 1 .. i
        PROVE  /\ template[j].kind = "literal" => all[j] = template[j].text
               /\ template[j].kind = "variable" =>
                    /\ template[j].name \in DOMAIN bound
                    /\ NamesOnce(template) => all[j] = bound[template[j].name]
    BY <1>1, <1>3, <1>5, <1>6
  <2>2. Walked(template, uri, i, left, bound, all)
    BY <1>1, <1>3, <1>4, <2>1 DEF Walked
  <2> QED
    BY <1>3, <1>6, <2>2 DEF WalkedTo
<1>7. CASE /\ template[i].kind = "variable" /\ text # <<>> /\ Slash \notin Chars(text)
           /\ Consume(template, got, i) =
                [rest |-> left, bound |-> Bind(bound, template[i].name, text)]
  <2> DEFINE more == Bind(bound, template[i].name, text)
  <2>1. /\ DOMAIN more = DOMAIN bound \cup {template[i].name} /\ more[template[i].name] = text
        /\ \A v \in DOMAIN bound : v # template[i].name => more[v] = bound[v]
    BY DEF Bind
  <2>2. Consume(template, got, i) = [rest |-> left, bound |-> more]
    BY <1>7
  <2> HIDE DEF more
  <2>3. \A v \in DOMAIN more : more[v] # <<>> /\ Slash \notin Chars(more[v])
    BY <1>1, <1>7, <2>1
  <2>4. ASSUME NEW j \in 1 .. i - 1
        PROVE  /\ template[j].kind = "literal" => all[j] = template[j].text
               /\ template[j].kind = "variable" =>
                    /\ template[j].name \in DOMAIN more
                    /\ NamesOnce(template) => all[j] = more[template[j].name]
    <3>1. j \in 1 .. Len(template) /\ j # i
      BY <1>0
    <3>2. template[j].kind = "variable" /\ NamesOnce(template) => template[j].name # template[i].name
      BY <1>0, <1>7, <3>1 DEF NamesOnce
    <3> QED
      BY <1>1, <1>3, <2>1, <3>2
  <2>5. ASSUME NEW j \in 1 .. i
        PROVE  /\ template[j].kind = "literal" => all[j] = template[j].text
               /\ template[j].kind = "variable" =>
                    /\ template[j].name \in DOMAIN more
                    /\ NamesOnce(template) => all[j] = more[template[j].name]
    BY <1>3, <1>5, <1>7, <2>1, <2>4
  <2>6. Walked(template, uri, i, left, more, all)
    BY <1>3, <1>4, <2>3, <2>5 DEF Walked
  <2> QED
    BY <1>3, <2>2, <2>6 DEF WalkedTo
<1> QED
  BY <1>2, <1>6, <1>7 DEF Took

\* A URI a template matches is what the template stands for with what was bound.
LEMMA Matching ==
  ASSUME NEW S, NEW template \in Seq(Pieces(S)), NEW uri \in Seq(S),
         MatchUri(template, uri) # NoResult
  PROVE  WellRead([by |-> "template", template |-> template, bound |-> MatchUri(template, uri)], uri)
<1> DEFINE n == Len(template)
<1>0. n \in Nat /\ DOMAIN template = 1 .. n /\ \A i \in 1 .. n : template[i] \in Pieces(S)
  BY LenProperties, ElementOfSeq
<1>1. PICK walk : /\ walk[0] = Begun(uri)
                  /\ \A i \in 1 .. n : walk[i] = Consume(template, walk[i - 1], i)
                  /\ Walk(template, uri) = walk[n]
  BY <1>0, Walks
<1> HIDE DEF n
<1> DEFINE T == {i \in Nat : i <= n /\ walk[i] # NoResult => WalkedTo(S, template, uri, i, walk[i])}
<1>2. 0 \in T
  <2>1. <<>> \in Seq(Seq(S)) /\ Len(<<>>) = 0 /\ FlattenSeq(<<>>) = <<>> /\ <<>> \o uri = uri
    BY EmptySeq, Flattening, ConcatEmptySeq
  <2>2. DOMAIN <<>> = {}
    OBVIOUS
  <2>3. Walked(template, uri, 0, uri, <<>>, <<>>)
    BY <2>1, <2>2 DEF Walked, Spelled
  <2> QED
    BY <1>1, <2>1, <2>3 DEF Begun, WalkedTo
<1>3. ASSUME NEW i \in T PROVE i + 1 \in T
  <2>1. SUFFICES ASSUME i + 1 <= n, walk[i + 1] # NoResult
                 PROVE  WalkedTo(S, template, uri, i + 1, walk[i + 1])
    OBVIOUS
  <2>2. walk[i + 1] = Consume(template, walk[i], i + 1) /\ i + 1 \in 1 .. n /\ (i + 1) - 1 = i
    BY <1>0, <1>1, <2>1
  <2>3. walk[i] # NoResult
    BY <2>1, <2>2 DEF Consume
  <2>4. WalkedTo(S, template, uri, i, walk[i])
    BY <1>0, <2>1, <2>3
  <2>5. PICK rest \in Seq(S), texts \in Seq(Seq(S)) : \E bound :
          Walked(template, uri, i, rest, bound, texts) /\ walk[i] = [rest |-> rest, bound |-> bound]
    BY <2>4 DEF WalkedTo
  <2>6. PICK bound :
          Walked(template, uri, i, rest, bound, texts) /\ walk[i] = [rest |-> rest, bound |-> bound]
    BY <2>5
  <2> DEFINE k == i + 1
  <2>7. k \in 1 .. Len(template) /\ Walked(template, uri, k - 1, rest, bound, texts)
        /\ Consume(template, walk[i], k) # NoResult
    BY <2>1, <2>2, <2>6 DEF n
  <2> HIDE DEF k
  <2>8. WalkedTo(S, template, uri, k, Consume(template, walk[i], k))
    BY <2>3, <2>6, <2>7, WalkStep
  <2> QED
    BY <2>2, <2>8 DEF k
<1> HIDE DEF T
<1>4. n \in T
  BY <1>0, <1>2, <1>3, Induction DEF T
<1>5. walk[n] # NoResult /\ walk[n].rest = <<>> /\ MatchUri(template, uri) = walk[n].bound
  BY <1>1 DEF MatchUri
<1>6. WalkedTo(S, template, uri, n, walk[n])
  BY <1>0, <1>4, <1>5 DEF T
<1>7. PICK rest \in Seq(S), texts \in Seq(Seq(S)) : \E bound :
        Walked(template, uri, n, rest, bound, texts) /\ walk[n] = [rest |-> rest, bound |-> bound]
  BY <1>6 DEF WalkedTo
<1>8. PICK bound :
        Walked(template, uri, n, rest, bound, texts) /\ walk[n] = [rest |-> rest, bound |-> bound]
  BY <1>7
<1>9. rest = <<>> /\ MatchUri(template, uri) = bound
  BY <1>5, <1>8
<1>10. FlattenSeq(texts) = uri
  <2>1. FlattenSeq(texts) \in Seq(S)
    <3>1. rest \in Seq(S)
      OBVIOUS
    <3> QED
      BY <3>1, Flattening
  <2> QED
    BY <1>8, <1>9, <2>1, ConcatEmptySeq DEF Walked, Spelled
<1>11. ASSUME NamesOnce(template)
       PROVE  Expansion(template, bound) = uri
  <2>1. \A j \in 1 .. n : template[j].kind = "literal" \/ template[j].kind = "variable"
    BY <1>0 DEF Pieces, Literal, Variable
  <2>2. \A j \in 1 .. n : texts[j] = IF template[j].kind = "literal" THEN template[j].text
                                    ELSE bound[template[j].name]
    BY <1>8, <1>11, <2>1 DEF Walked
  <2>3. texts = [j \in 1 .. n |-> texts[j]]
    BY <1>8, LenProperties DEF Walked
  <2>4. texts = [j \in DOMAIN template |->
                   IF template[j].kind = "literal" THEN template[j].text
                   ELSE bound[template[j].name]]
    BY <1>0, <2>2, <2>3
  <2> QED
    BY <1>10, <2>4 DEF Expansion
<1> QED
  BY <1>8, <1>9, <1>11 DEF WellRead, Walked

\* Whatever templates make of a URI is well read.
LEMMA Reading ==
  ASSUME NEW uri \in Uris, ByTemplate[uri] # NoResult
  PROVE  WellRead(ByTemplate[uri], uri)
<1> DEFINE matching == {i \in DOMAIN Templates : MatchUri(Templates[i], uri) # NoResult}
<1>1. matching # {}
  BY DEF ByTemplate
<1>2. matching \in SUBSET Nat /\ \A i \in matching : Templates[i] \in Seq(Pieces(Characters))
  <2>1. DOMAIN Patterns \subseteq Nat /\ \A i \in DOMAIN Patterns : Patterns[i] \in Seq(Characters)
    BY RegistriesAssumption, LenProperties, ElementOfSeq
  <2> QED
    BY <2>1, Parsing DEF Templates
<1>3. PICK i : i = CHOOSE m \in matching : \A k \in matching : m <= k
  OBVIOUS
<1>4. i \in matching
  BY <1>1, <1>2, <1>3, Least
<1>5. ByTemplate[uri] = [by |-> "template", template |-> Templates[i],
                         bound |-> MatchUri(Templates[i], uri)]
  BY <1>1, <1>3 DEF ByTemplate
<1>6. MatchUri(Templates[i], uri) # NoResult /\ Templates[i] \in Seq(Pieces(Characters))
  BY <1>2, <1>4
<1>7. uri \in Seq(Characters)
  BY RegistriesAssumption
<1> HIDE DEF matching
<1> QED
  BY <1>5, <1>6, <1>7, Matching

-----------------------------------------------------------------------------
USE McpServerAssumption

-----------------------------------------------------------------------------
(* What a message comes to. *)

\* Only what the stateful lifecycle still serves is answered with a result.
LEMMA Lifecycle ==
  ASSUME NEW m, NEW connected, Dispatched(m, connected) = "ok"
  PROVE  /\ IsModern(m) => m.method \notin Removed
         /\ m.method = "logging/setLevel" => m.level \in Levels
<1>1. ~(IsModern(m) /\ m.method \in Removed) /\ ByMethod(m, connected) = "ok"
  BY DEF Dispatched
<1>2. m.method = "logging/setLevel" => m.level \in Levels
  BY <1>1 DEF ByMethod, Cacheable
<1> QED
  BY <1>1, <1>2

\* A request goes unanswered only when it opens a subscription, or is none.
LEMMA Unanswered ==
  ASSUME NEW m, NEW connected, Dispatched(m, connected) = "silent", Request(m)
  PROVE  m.method \in {"subscriptions/listen", "notifications/initialized"}
<1>1. ByMethod(m, connected) = "silent"
  BY DEF Dispatched, Request
<1> QED
  BY <1>1 DEF ByMethod, Cacheable

\* Finishing types a result, and gives hints to what may be cached, unless it
\* asks for input.
LEMMA Finishing ==
  ASSUME NEW method, NEW type \in {"none", "complete", "input_required"}, NEW completion,
         type = "input_required" => method \notin Cacheable
  PROVE  LET result == Finished(method, Shaped(type, completion)) IN
         /\ result.type # "none"
         /\ result.hints <=> method \in Cacheable
         /\ result.completion = completion
BY DEF Finished, Stamp, Shaped

\* A completion says whether it was cut.
LEMMA Cutting ==
  ASSUME NEW n \in Nat
  PROVE  LET cut == CompletionOf(n) IN cut.more <=> cut.sent < cut.total
<1> DEFINE cut == CompletionOf(n)
<1>1. cut.total = n /\ (cut.more <=> n > MaxValues)
  BY DEF CompletionOf
<1>2. cut.sent = IF n < MaxValues THEN n ELSE MaxValues
  BY DEF CompletionOf
<1> HIDE DEF cut
<1>3. cut.more <=> cut.sent < cut.total
  <2>1. CASE n < MaxValues
    <3>1. cut.sent = n
      BY <1>2, <2>1
    <3> QED
      BY <1>1, <2>1, <3>1, RegistriesAssumption
  <2>2. CASE ~(n < MaxValues)
    <3>1. cut.sent = MaxValues
      BY <1>2, <2>2
    <3> QED
      BY <1>1, <2>2, <3>1, RegistriesAssumption
  <2> QED
    BY <2>1, <2>2
<1> QED
  BY <1>3 DEF cut

\* A reply fits whatever was shaped for it.
LEMMA Replying ==
  ASSUME NEW m, NEW code, NEW type \in {"none", "complete", "input_required"}, NEW completion,
         code = "ok" /\ type = "input_required" => m.method \notin Cacheable,
         completion = NoResult \/ \E n \in Nat : completion = CompletionOf(n),
         code = "silent" /\ Request(m) =>
           m.method \in {"subscriptions/listen", "notifications/initialized"}
  PROVE  Fits(m, Reply(m, code, Shaped(type, completion)))
<1> DEFINE reply == Reply(m, code, Shaped(type, completion))
<1>1. CASE code = "silent" \/ (~Request(m) /\ ~Nameless(m, code))
  <2>1. reply = [code |-> "silent"]
    BY <1>1 DEF Reply
  <2> QED
    BY <1>1, <2>1 DEF Fits
<1>2. CASE code \notin {"silent", "ok"} /\ (Request(m) \/ Nameless(m, code))
  <2>1. reply = [code |-> code, empty |-> Nameless(m, code)]
    BY <1>2 DEF Reply
  <2> QED
    BY <1>2, <2>1 DEF Fits
<1>3. CASE code = "ok" /\ Request(m)
  <2>1. IF completion = NoResult THEN TRUE ELSE completion.more <=> completion.sent < completion.total
    BY Cutting
  <2>2. CASE IsModern(m)
    <3> DEFINE result == Finished(m.method, Shaped(type, completion))
    <3>1. reply = [code |-> "ok", result |-> result]
      BY <1>3, <2>2 DEF Reply
    <3>2. /\ result.type # "none" /\ result.completion = completion
          /\ result.hints <=> m.method \in Cacheable
      BY <1>3, Finishing
    <3> HIDE DEF result
    <3> QED
      BY <1>3, <2>1, <2>2, <3>1, <3>2 DEF Fits
  <2>3. CASE ~IsModern(m)
    <3>1. reply = [code |-> "ok", result |-> Shaped(type, completion)]
      BY <1>3, <2>3 DEF Reply
    <3> QED
      BY <1>3, <2>1, <2>3, <3>1 DEF Fits, Shaped
  <2> QED
    BY <2>2, <2>3
<1> QED
  BY <1>1, <1>2, <1>3 DEF Nameless
-----------------------------------------------------------------------------
(* One call. *)

\* What the invariant says of one slot.
Entry(s) ==
  /\ \/ call[s] = NoCall
     \/ (Underway(s) /\ IsCall(call[s]))
     \/ (call[s].stage = "done" /\ IsOver(call[s]))
  /\ FloorHolds(s)
  /\ call[s].stage = "done" => Fits(call[s].msg, call[s].reply)

LEMMA Entries ==
  ASSUME McpServerInv
  PROVE  /\ level \in Levels /\ call = [s \in Slots |-> call[s]] /\ QueueTrue
         /\ \A s \in Slots : Entry(s)
BY DEF McpServerInv, McpServerTypeOK, AnswersFit, Entry

\* And the other way round, for the state after a step.
LEMMA EntriesAfter ==
  ASSUME level' \in Levels, call' = [s \in Slots |-> call'[s]], QueueTrue',
         \A s \in Slots : Entry(s)'
  PROVE  McpServerInv'
BY DEF McpServerInv, McpServerTypeOK, AnswersFit, Entry

\* A slot nobody touches stays as it is.
LEMMA Untouched ==
  ASSUME NEW s \in Slots, Entry(s), call'[s] = call[s]
  PROVE  Entry(s)'
BY DEF Entry, Underway, FloorHolds

\* A message that is handed over may log from where the level is.
LEMMA Handing ==
  ASSUME NEW s \in Slots, NEW m, NEW via, NEW within, level \in Levels,
         call'[s] = Handed(m, via, within)
  PROVE  Entry(s)'
<1>1. CASE Unreadable(m)
  <2>1. call'[s] = [stage |-> "done", msg |-> m, reply |-> [code |-> "unreadable"]]
    BY <1>1 DEF Handed
  <2>2. Fits(m, [code |-> "unreadable"])
    BY DEF Fits
  <2> QED
    BY <2>1, <2>2 DEF Entry, FloorHolds, Underway, IsOver
<1>2. CASE ~Unreadable(m)
  <2>1. PICK stage \in {"waiting", "taken"}, connected \in BOOLEAN,
              mayLog \in {{}, MayLog(m)} :
          call'[s] = [stage |-> stage, msg |-> m, via |-> via, within |-> within,
                      connected |-> connected, mayLog |-> mayLog, lowest |-> level,
                      heard |-> None, reads |-> NoResult]
    BY <1>2 DEF Handed
  <2>2. /\ mayLog \subseteq Levels \cup {Odd}
        /\ \A l \in mayLog \cap Levels :
             IF IsModern(m) THEN m.level # None /\ l >= m.level ELSE l >= level
    BY DEF MayLog, From
  <2>3. Underway(s)' /\ IsCall(call[s])'
    BY <2>1, <2>2 DEF Underway, IsCall
  <2>4. /\ call'[s].heard = None /\ call'[s].mayLog = mayLog
        /\ call'[s].msg = m /\ call'[s].lowest = level
    BY <2>1
  <2>5. FloorHolds(s)'
    BY <2>2, <2>4 DEF FloorHolds
  <2> QED
    BY <2>1, <2>3, <2>5 DEF Entry
<1> QED
  BY <1>1, <1>2

\* A call that goes on, its floor no higher than it was.
LEMMA GoesOn ==
  ASSUME NEW s \in Slots, Entry(s), Underway(s), IsCall(call'[s]), Underway(s)',
         call'[s].msg = call[s].msg, call'[s].mayLog = call[s].mayLog,
         call'[s].lowest <= call[s].lowest, call'[s].heard \in call[s].mayLog \cup {call[s].heard}
  PROVE  Entry(s)'
<1>1. /\ call[s].lowest \in Levels /\ call'[s].lowest \in Levels
      /\ \A l \in Levels : l \in Nat
  <2>1. IsCall(call[s])
    BY DEF Entry, Underway, NoCall
  <2> QED
    BY <2>1 DEF IsCall
<1>2. call'[s].heard \in call'[s].mayLog \cup {None}
  BY DEF Entry, FloorHolds
<1>3. \A l \in call[s].mayLog \cap Levels :
        IF IsModern(call[s].msg) THEN call[s].msg.level # None /\ l >= call[s].msg.level
        ELSE l >= call[s].lowest
  BY DEF Entry, FloorHolds
<1>4. ASSUME NEW l \in Levels, l >= call[s].lowest
      PROVE  l >= call'[s].lowest
  <2>1. l \in Nat /\ call[s].lowest \in Nat /\ call'[s].lowest \in Nat
    BY <1>1
  <2> QED
    BY <1>4, <2>1
<1>5. \A l \in call[s].mayLog \cap Levels :
        IF IsModern(call[s].msg) THEN call[s].msg.level # None /\ l >= call[s].msg.level
        ELSE l >= call'[s].lowest
  BY <1>3, <1>4
<1>6. FloorHolds(s)'
  BY <1>2, <1>5 DEF FloorHolds
<1> QED
  BY <1>6 DEF Entry, Underway

\* A call that is answered, fittingly.
LEMMA Answering ==
  ASSUME NEW s \in Slots, NEW reply, Fits(call[s].msg, reply), call'[s] = Ended(s, reply)
  PROVE  Entry(s)'
BY DEF Ended, Entry, FloorHolds, Underway, IsOver

-----------------------------------------------------------------------------
(* One step. *)

\* A message handed over joins the queue only in Python, and last.
LEMMA GiveStep ==
  ASSUME McpServerInv, NEW s \in Slots, NEW m, NEW via, NEW within, Give(s, m, via, within)
  PROVE  McpServerInv'
<1> USE Entries, EntriesAfter DEF Give
<1>1. /\ call' = [t \in Slots |-> call'[t]] /\ level' \in Levels
      /\ call'[s] = Handed(m, via, within)
      /\ \A t \in Slots \ {s} : call'[t] = call[t]
  BY DEF owned
<1>2. \A t \in Slots : Entry(t)'
  BY <1>1, Handing, Untouched
<1>3. QueueTrue'
  <2>1. \A i \in DOMAIN queue : queue[i] \in Slots \cup {"stdio"} /\ (queue[i] # s \/ queue[i] = "stdio")
    BY DEF QueueTrue
  <2>2. CASE queue' = queue
    BY <1>1, <2>1, <2>2 DEF QueueTrue
  <2>3. CASE queue' = Append(queue, s) /\ via = "direct" /\ python /\ ~Unreadable(m)
    <3>1. call'[s].stage = "waiting"
      BY <1>1, <2>3 DEF Handed
    <3> QED
      BY <1>1, <2>1, <2>3, <3>1 DEF QueueTrue
  <2> QED
    BY <2>2, <2>3
<1> QED
  BY <1>1, <1>2, <1>3

\* Calls go on or end as long as those that wait keep waiting.
LEMMA QueueStays ==
  ASSUME McpServerInv, UNCHANGED queue,
         \A t \in Slots : call[t].stage = "waiting" => call'[t].stage = "waiting"
  PROVE  QueueTrue'
<1>1. \A i \in DOMAIN queue : queue[i] \in Slots \cup {"stdio"}
  BY DEF McpServerInv, QueueTrue
<1> QED
  BY <1>1 DEF McpServerInv, QueueTrue

\* Whoever is handed the mutex has waited for it.
LEMMA AcquireStep ==
  ASSUME McpServerInv, Acquire
  PROVE  McpServerInv'
<1> USE Entries, EntriesAfter DEF Acquire
<1>0. PICK first : first = Head(queue)
  OBVIOUS
<1>1. /\ queue \in Seq(Slots \cup {"stdio"}) /\ queue # <<>> /\ queue' = Tail(queue)
      /\ first = queue[1] /\ 1 \in DOMAIN queue
      /\ \A i \in DOMAIN queue' : queue'[i] = queue[i + 1] /\ i + 1 \in DOMAIN queue /\ i + 1 # 1
  BY <1>0 DEF QueueTrue
<1>2. CASE first = "stdio"
  <2>1. UNCHANGED <<call, level>>
    BY <1>0, <1>2 DEF owned
  <2>2. QueueTrue'
    BY <1>1, <2>1 DEF QueueTrue
  <2> QED
    BY <2>1, <2>2, Untouched
<1>3. CASE first # "stdio"
  <2>1. first \in Slots /\ call[first].stage = "waiting" /\ Entry(first)
    BY <1>1, <1>3 DEF QueueTrue
  <2>2. Underway(first) /\ IsCall(call[first])
    BY <2>1 DEF Entry, Underway, NoCall
  <2>3. /\ call' = [call EXCEPT ![first].stage = "taken"]
        /\ level' = level
    BY <1>0, <1>3 DEF owned
  <2>4. /\ call' = [t \in Slots |-> call'[t]]
        /\ call'[first] = [call[first] EXCEPT !.stage = "taken"]
        /\ \A t \in Slots \ {first} : call'[t] = call[t]
    BY <2>1, <2>3
  <2>5. Entry(first)'
    <3>1. IsCall(call'[first])
      BY <2>2, <2>4 DEF IsCall
    <3>2. /\ call'[first].stage = "taken" /\ call'[first].msg = call[first].msg
          /\ call'[first].mayLog = call[first].mayLog /\ call'[first].heard = call[first].heard
          /\ call'[first].lowest = call[first].lowest /\ call[first].lowest \in Nat
      BY <2>2, <2>4 DEF IsCall
    <3>3. Underway(first)'
      BY <3>2 DEF Underway
    <3> QED
      BY <2>1, <2>2, <3>1, <3>2, <3>3, GoesOn
  <2>6. QueueTrue'
    BY <1>1, <2>1, <2>4 DEF QueueTrue
  <2> QED
    BY <2>3, <2>4, <2>5, <2>6, Untouched
<1> QED
  BY <1>2, <1>3

\* A dispatched call runs its handler, or is answered as it fits; a level it sets
\* is a floor for every call under way.
LEMMA DispatchStep ==
  ASSUME McpServerInv, NEW s \in Slots, Dispatch(s)
  PROVE  McpServerInv'
<1> USE Entries, EntriesAfter
<1>1. PICK m, code : m = call[s].msg /\ code = Dispatched(m, call[s].connected)
  OBVIOUS
<1>2. Underway(s) /\ IsCall(call[s]) /\ call[s].lowest \in Nat /\ UNCHANGED queue
  BY DEF Dispatch, Entry, Underway, NoCall, IsCall
<1>3. CASE code = "runs"
  <2>1. PICK reads : call' = [call EXCEPT ![s].stage = "running", ![s].reads = reads]
    BY <1>1, <1>3 DEF Dispatch
  <2>2. /\ call' = [t \in Slots |-> call'[t]] /\ level' = level
        /\ call'[s] = [call[s] EXCEPT !.stage = "running", !.reads = reads]
        /\ \A t \in Slots \ {s} : call'[t] = call[t]
    BY <1>1, <1>3, <2>1 DEF Dispatch, owned
  <2>3. /\ call'[s].stage = "running" /\ call'[s].msg = m /\ call'[s].mayLog = call[s].mayLog
        /\ call'[s].lowest = call[s].lowest /\ call'[s].heard = call[s].heard
    BY <1>1, <1>2, <2>2 DEF IsCall
  <2>4. IsCall(call'[s])
    BY <1>2, <2>2 DEF IsCall
  <2>5. Entry(s)'
    BY <1>1, <1>2, <2>3, <2>4, GoesOn DEF Underway
  <2>6. QueueTrue'
    BY <1>2, <2>2, QueueStays DEF Dispatch
  <2> QED
    BY <2>2, <2>5, <2>6, Untouched
<1>4. CASE code # "runs"
  <2>1. /\ call' = [t \in Slots |-> call'[t]]
        /\ call'[s] = Ended(s, Reply(m, code, Plain(m)))
        /\ \A t \in Slots \ {s} :
             \/ call'[t] = call[t]
             \/ /\ m.method = "logging/setLevel" /\ code = "ok" /\ Underway(t)
                /\ call'[t] = [call[t] EXCEPT !.lowest = IF m.level < @ THEN m.level ELSE @]
    BY <1>1, <1>4 DEF Dispatch
  <2>2. m.method = "logging/setLevel" /\ code = "ok" => m.level \in Levels
    BY <1>1, Lifecycle
  <2>3. level' \in Levels
    BY <1>1, <1>4, <2>2 DEF Dispatch, Leaves, LevelAfter, owned
  <2>4. Entry(s)'
    <3>1. Fits(m, Reply(m, code, Plain(m)))
      <4>1. code = "silent" /\ Request(m) =>
              m.method \in {"subscriptions/listen", "notifications/initialized"}
        BY <1>1, Unanswered
      <4>2. PICK type \in {"none", "complete"},
                 completion \in {NoResult} \cup {CompletionOf(n) : n \in Nat} :
              Plain(m) = Shaped(type, completion)
        BY DEF Plain, ResultOf
      <4> QED
        BY <4>1, <4>2, Replying
    <3> QED
      BY <1>1, <2>1, <3>1, Answering
  <2>5. ASSUME NEW t \in Slots, t # s
        PROVE  Entry(t)' /\ (call[t].stage = "waiting" => call'[t].stage = "waiting")
    <3>1. CASE call'[t] = call[t]
      BY <3>1, Untouched
    <3>2. CASE /\ m.method = "logging/setLevel" /\ code = "ok" /\ Underway(t)
               /\ call'[t] = [call[t] EXCEPT !.lowest = IF m.level < @ THEN m.level ELSE @]
      <4>1. IsCall(call[t])
        BY <3>2 DEF Entry, Underway, NoCall
      <4>2. m.level \in Levels /\ m.level \in Nat /\ call[t].lowest \in Nat
        BY <2>2, <3>2, <4>1 DEF IsCall
      <4>3. PICK lowest \in Levels : /\ lowest <= call[t].lowest
                                    /\ call'[t] = [call[t] EXCEPT !.lowest = lowest]
        BY <3>2, <4>1, <4>2 DEF IsCall
      <4>4. /\ call'[t].stage = call[t].stage /\ call'[t].msg = call[t].msg
            /\ call'[t].mayLog = call[t].mayLog /\ call'[t].heard = call[t].heard
            /\ call'[t].lowest = lowest
        BY <4>1, <4>3 DEF IsCall
      <4>5. IsCall(call'[t])
        BY <4>1, <4>3 DEF IsCall
      <4> QED
        BY <3>2, <4>3, <4>4, <4>5, GoesOn DEF Underway
    <3> QED
      BY <2>1, <2>5, <3>1, <3>2
  <2>6. QueueTrue'
    BY <1>2, <2>5, QueueStays DEF Dispatch
  <2> QED
    BY <2>1, <2>3, <2>4, <2>5, <2>6
<1> QED
  BY <1>3, <1>4

\* What a handler returns is made into a reply that fits.
LEMMA Returning ==
  ASSUME NEW m, NEW returned \in MayReturn(m)
  PROVE  Fits(m, Returned(m, returned))
<1>1. PICK code \in {"ok", "internal", "invalid"} : code = Outcome(m, returned)
  BY DEF Outcome
<1>2. CASE code = "ok" /\ m.method \in registered.overridden
  BY <1>1, <1>2 DEF Returned, Fits
<1>3. CASE ~(code = "ok" /\ m.method \in registered.overridden)
  <2>1. Returned(m, returned) = Reply(m, code, ResultOf(returned))
    BY <1>1, <1>3 DEF Returned
  <2>2. /\ returned.found = NoResult \/ returned.found \in Nat
        /\ returned.as = "input_required" /\ m.method \notin registered.overridden =>
             m.method \in {"tools/call", "prompts/get"}
    BY RegistriesAssumption DEF MayReturn, OwnResult
  <2>3. PICK type \in {"none", "input_required"},
             completion \in {NoResult} \cup {CompletionOf(n) : n \in Nat} :
          /\ ResultOf(returned) = Shaped(type, completion)
          /\ type = "input_required" => returned.as = "input_required"
    BY <2>2 DEF ResultOf
  <2>4. code = "ok" /\ type = "input_required" => m.method \notin Cacheable
    BY <1>3, <2>2, <2>3 DEF Cacheable
  <2>5. completion = NoResult \/ \E n \in Nat : completion = CompletionOf(n)
    BY <2>3
  <2>6. Fits(m, Reply(m, code, Shaped(type, completion)))
    BY <1>1, <2>4, <2>5, Replying
  <2> QED
    BY <2>1, <2>3, <2>6
<1> QED
  BY <1>2, <1>3

\* A handler's return answers its call.
LEMMA ReturnStep ==
  ASSUME McpServerInv, NEW s \in Slots, Return(s)
  PROVE  McpServerInv'
<1> USE Entries, EntriesAfter
<1>1. PICK returned \in MayReturn(call[s].msg) :
        call' = [call EXCEPT ![s] = Ended(s, Returned(call[s].msg, returned))]
  BY DEF Return
<1>2. /\ call' = [t \in Slots |-> call'[t]] /\ level' = level
      /\ call'[s] = Ended(s, Returned(call[s].msg, returned))
      /\ \A t \in Slots \ {s} : call'[t] = call[t]
  BY <1>1 DEF Return, owned
<1>3. Entry(s)'
  BY <1>2, Returning, Answering
<1>4. QueueTrue'
  BY <1>2, QueueStays DEF Return
<1> QED
  BY <1>2, <1>3, <1>4, Untouched

\* What a handler logs its call may log.
LEMMA LogStep ==
  ASSUME McpServerInv, NEW s \in Slots, NEW l, Log(s, l)
  PROVE  McpServerInv'
<1> USE Entries, EntriesAfter
<1>1. Underway(s) /\ IsCall(call[s]) /\ call[s].lowest \in Nat
  BY DEF Log, Entry, Underway, NoCall, IsCall
<1>2. /\ call' = [t \in Slots |-> call'[t]] /\ level' = level
      /\ call'[s] = [call[s] EXCEPT !.heard = l]
      /\ \A t \in Slots \ {s} : call'[t] = call[t]
  BY DEF Log, owned
<1>3. /\ call'[s].stage = call[s].stage /\ call'[s].msg = call[s].msg
      /\ call'[s].mayLog = call[s].mayLog /\ call'[s].lowest = call[s].lowest
      /\ call'[s].heard = l /\ l \in call[s].mayLog
  BY <1>1, <1>2 DEF IsCall, Log
<1>4. IsCall(call'[s])
  BY <1>1, <1>2 DEF IsCall
<1>5. Entry(s)'
  BY <1>1, <1>3, <1>4, GoesOn DEF Underway
<1>6. QueueTrue'
  BY <1>2, <1>3, QueueStays DEF Log
<1> QED
  BY <1>2, <1>5, <1>6, Untouched

\* Registering and the loop leave every call alone.
LEMMA CallsStay ==
  ASSUME McpServerInv, UNCHANGED <<call, level>>,
         \/ UNCHANGED queue
         \/ queue' = Append(queue, "stdio")
  PROVE  McpServerInv'
<1> USE Entries, EntriesAfter
<1>1. QueueTrue'
  <2>1. CASE UNCHANGED queue
    BY <2>1, QueueStays
  <2>2. CASE queue' = Append(queue, "stdio")
    <3>1. /\ Len(queue) \in Nat /\ DOMAIN queue = 1 .. Len(queue)
          /\ queue' \in Seq(Slots \cup {"stdio"}) /\ DOMAIN queue' = 1 .. Len(queue) + 1
          /\ queue'[Len(queue) + 1] = "stdio"
          /\ \A i \in DOMAIN queue : queue'[i] = queue[i]
      BY <2>2 DEF QueueTrue
    <3> QED
      BY <3>1 DEF QueueTrue
  <2> QED
    BY <2>1, <2>2
<1> QED
  BY <1>1, Untouched

LEMMA InitMcpServerInv == ServerInit => McpServerInv
<1> SUFFICES ASSUME ServerInit PROVE McpServerInv
  OBVIOUS
<1>1. \A s \in Slots : call[s] = NoCall /\ call[s].stage = "none"
  BY DEF ServerInit, NoCall
<1>2. McpServerTypeOK /\ QueueTrue
  BY <1>1 DEF ServerInit, McpServerTypeOK, QueueTrue
<1>3. \A s \in Slots : FloorHolds(s)
  BY <1>1 DEF FloorHolds, Underway
<1>4. AnswersFit
  BY <1>1 DEF AnswersFit
<1> QED
  BY <1>2, <1>3, <1>4 DEF McpServerInv

-----------------------------------------------------------------------------
(* The mutex of the Python class. *)

\* Calls that go on leave the mutex where it is; one that ends gives it back.
LEMMA LockFrees ==
  ASSUME LockTrue, NEW s \in Slots, Underway(s), call[s].stage # "waiting",
         UNCHANGED <<python, shared, serving, queue>>,
         lock' = lock \/ (lock' = Freed(s) /\ ~Underway(s)'),
         \A t \in Slots : Underway(t)' =>
           /\ Underway(t) /\ call'[t].via = call[t].via
           /\ call'[t].stage = "waiting" <=> call[t].stage = "waiting"
  PROVE  LockTrue'
<1>1. shared
  BY DEF LockTrue, Underway, NoCall
<1>2. \A t \in Slots \cup {"stdio"} : lock = t => lock' = t \/ (t = s /\ ~Underway(s)')
  BY DEF Freed
<1>3. ASSUME NEW t \in Slots, python', Underway(t)'
      PROVE  IF call'[t].stage = "waiting"
             THEN call'[t].via = "direct" /\ \E i \in DOMAIN queue' : queue'[i] = t
             ELSE \/ (call'[t].via = "direct" /\ lock' = t)
                  \/ (call'[t].via = "line" /\ lock' = "stdio")
  BY <1>2, <1>3 DEF LockTrue
<1>4. python' /\ serving' = "on" => lock' = "stdio"
  BY <1>2 DEF LockTrue
<1> QED
  BY <1>1, <1>3, <1>4 DEF LockTrue

LEMMA LockGive ==
  ASSUME McpServerInv, LockTrue, NEW s \in Slots, NEW m, NEW via, NEW within,
         Give(s, m, via, within),
         via = "direct" \/ ~python \/ via = "line",
         via = "line" => serving = "on" /\ \A t \in Slots : Underway(t) => call[t].via # "line"
  PROVE  LockTrue'
<1>1. /\ UNCHANGED <<python, serving, lock>> /\ shared' /\ ~Underway(s)
      /\ call'[s] = Handed(m, via, within)
      /\ \A t \in Slots \ {s} : call'[t] = call[t]
  BY Entries DEF Give, Underway
<1>2. /\ queue' = queue \/ queue' = Append(queue, s)
      /\ python /\ via = "direct" /\ ~Unreadable(m) => queue' = Append(queue, s)
      /\ queue \in Seq(Slots \cup {"stdio"})
  BY Entries DEF Give, QueueTrue
<1>3. /\ \A i \in DOMAIN queue : i \in DOMAIN queue' /\ queue'[i] = queue[i]
      /\ queue' = Append(queue, s) => \E i \in DOMAIN queue' : queue'[i] = s
  BY <1>2
<1>4. Underway(s)' => /\ ~Unreadable(m) /\ call'[s].via = via
                      /\ call'[s].stage = IF via = "direct" /\ python THEN "waiting" ELSE "taken"
  BY <1>1 DEF Handed, Underway
<1>5. \A t \in Slots \ {s} : Underway(t)' <=> Underway(t)
  BY <1>1 DEF Underway
<1>6. ASSUME NEW t \in Slots, python', Underway(t)'
      PROVE  IF call'[t].stage = "waiting"
             THEN call'[t].via = "direct" /\ \E i \in DOMAIN queue' : queue'[i] = t
             ELSE \/ (call'[t].via = "direct" /\ lock' = t)
                  \/ (call'[t].via = "line" /\ lock' = "stdio")
  <2>1. CASE t = s
    BY <1>1, <1>2, <1>3, <1>4, <1>6, <2>1 DEF LockTrue
  <2>2. CASE t # s
    BY <1>1, <1>3, <1>5, <1>6, <2>2 DEF LockTrue
  <2> QED
    BY <2>1, <2>2
<1>7. \A t, u \in {v \in Slots : Underway(v)'} : call'[t].via = "line" /\ call'[u].via = "line" => t = u
  BY <1>1, <1>4, <1>5 DEF LockTrue
<1> QED
  BY <1>1, <1>6, <1>7 DEF LockTrue

LEMMA LockAcquire ==
  ASSUME McpServerInv, LockTrue, Acquire
  PROVE  LockTrue'
<1> USE DEF Acquire
<1>0. PICK first : first = Head(queue)
  OBVIOUS
<1>1. /\ queue \in Seq(Slots \cup {"stdio"}) /\ queue # <<>> /\ lock' = first
      /\ first = queue[1] /\ 1 \in DOMAIN queue
      /\ UNCHANGED <<python, shared>>
      /\ \A i \in DOMAIN queue : i # 1 => i - 1 \in DOMAIN queue' /\ queue'[i - 1] = queue[i]
  BY <1>0, Entries DEF QueueTrue
<1>2. \A t \in Slots : python /\ Underway(t) =>
        call[t].stage = "waiting" /\ call[t].via = "direct" /\ \E i \in DOMAIN queue : queue[i] = t
  BY DEF LockTrue
<1>3. CASE first = "stdio"
  <2>1. call' = call /\ serving' = "on"
    BY <1>0, <1>3
  <2>2. \A t \in Slots : python /\ Underway(t) => \E i \in DOMAIN queue' : queue'[i] = t
    BY <1>1, <1>2, <1>3
  <2>3. \A t \in Slots : Underway(t)' <=> Underway(t)
    BY <2>1 DEF Underway
  <2>4. shared
    BY <1>1 DEF LockTrue
  <2> QED
    BY <1>1, <1>2, <1>3, <2>1, <2>2, <2>3, <2>4 DEF LockTrue
<1>4. CASE first # "stdio"
  <2>1. first \in Slots /\ call[first].stage = "waiting" /\ Underway(first) /\ IsCall(call[first])
    BY <1>1, <1>4, Entries DEF QueueTrue, Entry, Underway, NoCall
  <2>2. /\ call' = [call EXCEPT ![first].stage = "taken"] /\ serving' = serving
        /\ call = [t \in Slots |-> call[t]]
    BY <1>0, <1>4, Entries
  <2>3. /\ call'[first].stage = "taken" /\ call'[first].via = call[first].via
        /\ \A t \in Slots \ {first} : call'[t] = call[t]
    BY <2>1, <2>2 DEF IsCall
  <2>4. \A t \in Slots : Underway(t)' <=> Underway(t)
    BY <2>1, <2>3 DEF Underway
  <2>5. shared
    BY <2>1 DEF LockTrue, Underway, NoCall
  <2>6. \A t \in Slots \ {first} : python /\ Underway(t) => \E i \in DOMAIN queue' : queue'[i] = t
    BY <1>1, <1>2
  <2>7. ASSUME NEW t \in Slots, python', Underway(t)'
        PROVE  IF call'[t].stage = "waiting"
               THEN call'[t].via = "direct" /\ \E i \in DOMAIN queue' : queue'[i] = t
               ELSE \/ (call'[t].via = "direct" /\ lock' = t)
                    \/ (call'[t].via = "line" /\ lock' = "stdio")
    BY <1>1, <1>2, <2>3, <2>4, <2>6, <2>7
  <2>8. python' /\ serving' = "on" => lock' = "stdio"
    BY <1>1, <2>2 DEF LockTrue
  <2>9. \A t, u \in {v \in Slots : Underway(v)'} : call'[t].via = "line" /\ call'[u].via = "line" => t = u
    BY <2>1, <2>3, <2>4 DEF LockTrue
  <2> QED
    BY <1>1, <2>5, <2>7, <2>8, <2>9 DEF LockTrue
<1> QED
  BY <1>3, <1>4

\* Registering, the loop's ends and steps that change nothing.
LEMMA LockStays ==
  ASSUME LockTrue, UNCHANGED <<python, call>>,
         \/ UNCHANGED <<shared, serving, lock, queue>>
         \/ RunStdio
         \/ McpServerInv /\ EndOfInput
  PROVE  LockTrue'
<1>1. \A t \in Slots : Underway(t)' <=> Underway(t)
  BY DEF Underway
<1>2. CASE UNCHANGED <<shared, serving, lock, queue>>
  BY <1>1, <1>2 DEF LockTrue
<1>3. CASE RunStdio
  BY <1>1, <1>3 DEF LockTrue, RunStdio
<1>4. CASE McpServerInv /\ EndOfInput
  BY <1>1, <1>4 DEF LockTrue, EndOfInput
<1> QED
  BY <1>2, <1>3, <1>4

-----------------------------------------------------------------------------
(* What holds of every server. *)

\* Calls, what they may log and what they were answered, and who waits for the
\* mutex, whatever is handed over and registered.
THEOREM McpServerConsistent == ServerSpec => []McpServerInv
<1>1. ASSUME McpServerInv, ServerNext
      PROVE  McpServerInv'
  <2>1. ASSUME NEW s \in Slots, NEW m \in Messages[s],
               \/ Direct(s, m) \/ Post(s, m) \/ Line(s, m)
               \/ \E t \in Slots : CallBack(t, s, m)
        PROVE  McpServerInv'
    <3>1. PICK via, within : Give(s, m, via, within)
      BY <2>1 DEF Direct, Post, Line, CallBack
    <3> QED
      BY <1>1, <3>1, GiveStep
  <2>2. ASSUME NEW s \in Slots, Dispatch(s) \/ Return(s) \/ \E l \in Levels \cup {Odd} : Log(s, l)
        PROVE  McpServerInv'
    BY <1>1, <2>2, DispatchStep, ReturnStep, LogStep
  <2>3. ASSUME NEW what, Register(what)
        PROVE  McpServerInv'
    BY <1>1, <2>3, CallsStay DEF Register, owned
  <2>4. CASE \/ \E t \in DOMAIN LateTools : RegisterTool(t) \/ PyRegisterTool(t)
             \/ \E uri \in LateUris : RegisterResource(uri) \/ PyRegisterResource(uri)
             \/ \E p \in DOMAIN LatePrompts : RegisterPrompt(p)
             \/ \E method \in LateMethods : RegisterMethod(method)
    BY <2>3, <2>4 DEF RegisterTool, PyRegisterTool, RegisterResource, PyRegisterResource,
         RegisterPrompt, RegisterMethod
  <2>5. CASE RunStdio \/ EndOfInput
    BY <1>1, <2>5, CallsStay DEF RunStdio, EndOfInput, owned
  <2>6. CASE Acquire
    BY <1>1, <2>6, AcquireStep
  <2> QED
    BY <1>1, <2>1, <2>2, <2>4, <2>5, <2>6 DEF ServerNext
<1>2. ASSUME McpServerInv, UNCHANGED srvVars
      PROVE  McpServerInv'
  BY <1>2, CallsStay DEF srvVars, owned
<1> QED
  BY <1>1, <1>2, InitMcpServerInv, PTL DEF ServerSpec

\* No client hears less severe messages than its call may log: a modern call those
\* it asked for, a legacy call none below every level set while it ran
\* (server/dispatch.rs:368-376).
THEOREM LogsAreAsAsked == ServerSpec => []LogsOnlyAsAsked
<1>1. McpServerInv => LogsOnlyAsAsked
  <2> SUFFICES ASSUME McpServerInv, NEW s \in Slots, call[s].stage = "running",
                      NEW l \in {call[s].heard} \cap Levels
               PROVE  IF IsModern(call[s].msg) THEN call[s].msg.level # None /\ l >= call[s].msg.level
                      ELSE l >= call[s].lowest
    BY DEF LogsOnlyAsAsked
  <2>1. Underway(s) /\ FloorHolds(s)
    BY DEF McpServerInv, Underway
  <2> QED
    BY <2>1 DEF FloorHolds
<1> QED
  BY <1>1, McpServerConsistent, PTL

\* Every result is shaped for the era of its request, and every request that is
\* owed an answer gets one (server/modern.rs:207-212, server/completion.rs:101-105).
THEOREM AnswersAlwaysFit == ServerSpec => []AnswersFit
<1>1. McpServerInv => AnswersFit
  BY DEF McpServerInv
<1> QED
  BY <1>1, McpServerConsistent, PTL

\* A modern message leaves no trace in the stateful lifecycle, whatever its id,
\* its version and its way in (server/modern.rs:50-56).
THEOREM ModernIsTraceless == ServerSpec => ModernLeavesNoTrace
<1> DEFINE Traceless ==
      \A s \in Slots :
        call[s].stage = "taken" /\ call'[s].stage # "taken" /\ IsModern(call[s].msg)
          => UNCHANGED owned
<1>1. ASSUME McpServerInv, ServerNext
      PROVE  Traceless
  <2> SUFFICES ASSUME NEW s \in Slots, call[s].stage = "taken", call'[s].stage # "taken",
                      IsModern(call[s].msg)
               PROVE  UNCHANGED owned
    OBVIOUS
  <2>1. CASE Dispatch(s)
    <3>1. PICK code : code = Dispatched(call[s].msg, call[s].connected)
      OBVIOUS
    <3>2. CASE code # "ok"
      BY <2>1, <3>1, <3>2 DEF Dispatch, Leaves
    <3>3. CASE code = "ok"
      <4>1. call[s].msg.method \notin Removed
        BY <3>1, <3>3, Lifecycle
      <4> QED
        BY <2>1, <3>1, <3>3, <4>1 DEF Dispatch, Leaves, SubscriptionsAfter, LevelAfter,
             SessionsAfter, Removed, owned
    <3> QED
      BY <3>2, <3>3
  <2>2. ASSUME NEW t \in Slots, t # s, Dispatch(t)
        PROVE  FALSE
    <3>1. PICK m, code : m = call[t].msg /\ code = Dispatched(m, call[t].connected)
      OBVIOUS
    <3>2. IsCall(call[s])
      BY <1>1, Entries DEF Entry, NoCall
    <3>3. CASE code = "runs"
      BY <1>1, <2>2, <3>1, <3>3, Entries DEF Dispatch
    <3>4. CASE code # "runs"
      <4>1. \/ call'[s] = call[s]
            \/ call'[s] = [call[s] EXCEPT !.lowest = IF m.level < @ THEN m.level ELSE @]
        BY <2>2, <3>1, <3>4 DEF Dispatch
      <4> QED
        BY <3>2, <4>1 DEF IsCall
    <3> QED
      BY <3>3, <3>4
  <2>3. CASE ~\E t \in Slots : Dispatch(t)
    BY <1>1, <2>3 DEF ServerNext, Direct, Post, Line, CallBack, Give, Return, Log, RegisterTool,
         PyRegisterTool, RegisterResource, PyRegisterResource, RegisterPrompt, RegisterMethod,
         Register, RunStdio, Acquire, EndOfInput
  <2> QED
    BY <2>1, <2>2, <2>3
<1>2. UNCHANGED srvVars => Traceless
  BY DEF srvVars
<1>3. McpServerInv /\ [ServerNext]_srvVars => [Traceless]_srvVars
  BY <1>1, <1>2
<1> QED
  BY <1>3, McpServerConsistent, PTL DEF ServerSpec, ModernLeavesNoTrace

\* Behind the mutex whoever is handled holds it, and whoever waits is queued.
THEOREM LockHolds == ServerSpec => []LockTrue
<1>1. ServerInit => LockTrue
  BY DEF ServerInit, LockTrue, NoCall, Underway
<1>2. ASSUME McpServerInv, LockTrue, ServerNext
      PROVE  LockTrue'
  <2>1. ASSUME NEW s \in Slots, NEW m \in Messages[s],
               \/ Direct(s, m) \/ Post(s, m) \/ Line(s, m)
               \/ \E t \in Slots : CallBack(t, s, m)
        PROVE  LockTrue'
    <3>1. CASE Direct(s, m)
      BY <1>2, <3>1, LockGive DEF Direct
    <3>2. CASE Post(s, m)
      BY <1>2, <3>2, LockGive DEF Post
    <3>3. CASE Line(s, m)
      BY <1>2, <3>3, LockGive DEF Line
    <3>4. CASE \E t \in Slots : CallBack(t, s, m)
      BY <1>2, <3>4, LockGive DEF CallBack
    <3> QED
      BY <2>1, <3>1, <3>2, <3>3, <3>4
  <2>2. ASSUME NEW s \in Slots, Dispatch(s)
        PROVE  LockTrue'
    <3>1. /\ Underway(s) /\ call[s].stage # "waiting" /\ UNCHANGED <<python, shared, serving, queue>>
          /\ call = [t \in Slots |-> call[t]]
          /\ \A t \in Slots : Underway(t) => IsCall(call[t])
      BY <1>2, <2>2, Entries DEF Dispatch, Underway, Entry, NoCall
    <3>2. PICK m, code : m = call[s].msg /\ code = Dispatched(m, call[s].connected)
      OBVIOUS
    <3>3. CASE code = "runs"
      <4>1. PICK reads : call' = [call EXCEPT ![s].stage = "running", ![s].reads = reads]
        BY <2>2, <3>2, <3>3 DEF Dispatch
      <4>2. /\ call'[s] = [call[s] EXCEPT !.stage = "running", !.reads = reads]
            /\ \A t \in Slots \ {s} : call'[t] = call[t]
        BY <3>1, <4>1
      <4>3. call'[s].stage = "running" /\ call'[s].via = call[s].via
        BY <3>1, <4>2 DEF IsCall
      <4>4. lock' = lock
        BY <2>2, <3>2, <3>3 DEF Dispatch
      <4> QED
        BY <1>2, <3>1, <4>2, <4>3, <4>4, LockFrees DEF Underway
    <3>4. CASE code # "runs"
      <4>1. /\ lock' = Freed(s) /\ call'[s].stage = "done"
            /\ \A t \in Slots \ {s} :
                 \/ call'[t] = call[t]
                 \/ /\ Underway(t)
                    /\ call'[t] = [call[t] EXCEPT !.lowest = IF m.level < @ THEN m.level ELSE @]
        BY <2>2, <3>2, <3>4 DEF Dispatch, Ended
      <4>2. \A t \in Slots \ {s} : Underway(t)' =>
              Underway(t) /\ call'[t].via = call[t].via /\ call'[t].stage = call[t].stage
        <5>1. SUFFICES ASSUME NEW t \in Slots \ {s}, Underway(t)'
                       PROVE  Underway(t) /\ call'[t].via = call[t].via /\ call'[t].stage = call[t].stage
          OBVIOUS
        <5>2. CASE call'[t] = call[t]
          BY <5>1, <5>2 DEF Underway
        <5>3. CASE Underway(t) /\ call'[t] = [call[t] EXCEPT !.lowest = IF m.level < @ THEN m.level ELSE @]
          <6>1. IsCall(call[t])
            BY <3>1, <5>3
          <6> QED
            BY <5>3, <6>1 DEF IsCall
        <5> QED
          BY <4>1, <5>2, <5>3
      <4> QED
        BY <1>2, <3>1, <4>1, <4>2, LockFrees DEF Underway
    <3> QED
      BY <3>3, <3>4
  <2>3. ASSUME NEW s \in Slots, Return(s)
        PROVE  LockTrue'
    <3>1. /\ Underway(s) /\ call[s].stage # "waiting" /\ lock' = Freed(s)
          /\ UNCHANGED <<python, shared, serving, queue>>
          /\ call'[s].stage = "done" /\ \A t \in Slots \ {s} : call'[t] = call[t]
      BY <1>2, <2>3, Entries DEF Return, Ended, Underway
    <3> QED
      BY <1>2, <3>1, LockFrees DEF Underway
  <2>4. ASSUME NEW s \in Slots, NEW l, Log(s, l)
        PROVE  LockTrue'
    <3>1. /\ Underway(s) /\ call[s].stage # "waiting" /\ IsCall(call[s])
          /\ UNCHANGED <<python, shared, serving, lock, queue>>
          /\ call'[s] = [call[s] EXCEPT !.heard = l] /\ \A t \in Slots \ {s} : call'[t] = call[t]
      BY <1>2, <2>4, Entries DEF Log, Underway, Entry, NoCall
    <3>2. call'[s].stage = call[s].stage /\ call'[s].via = call[s].via
      BY <3>1 DEF IsCall
    <3> QED
      BY <1>2, <3>1, <3>2, LockFrees DEF Underway
  <2>5. ASSUME NEW what, Register(what)
        PROVE  LockTrue'
    BY <1>2, <2>5, LockStays DEF Register
  <2>6. CASE \/ \E t \in DOMAIN LateTools : RegisterTool(t) \/ PyRegisterTool(t)
             \/ \E uri \in LateUris : RegisterResource(uri) \/ PyRegisterResource(uri)
             \/ \E p \in DOMAIN LatePrompts : RegisterPrompt(p)
             \/ \E method \in LateMethods : RegisterMethod(method)
    BY <2>5, <2>6 DEF RegisterTool, PyRegisterTool, RegisterResource, PyRegisterResource,
         RegisterPrompt, RegisterMethod
  <2>7. CASE RunStdio \/ EndOfInput
    BY <1>2, <2>7, LockStays DEF RunStdio, EndOfInput
  <2>8. CASE Acquire
    BY <1>2, <2>8, LockAcquire
  <2> QED
    BY <1>2, <2>1, <2>2, <2>3, <2>4, <2>6, <2>7, <2>8 DEF ServerNext
<1>3. ASSUME LockTrue, UNCHANGED srvVars
      PROVE  LockTrue'
  <2>1. UNCHANGED <<python, call, shared, serving, lock, queue>>
    BY <1>3 DEF srvVars
  <2> QED
    BY <1>3, <2>1, LockStays
<1> QED
  BY <1>1, <1>2, <1>3, McpServerConsistent, PTL DEF ServerSpec

\* The Python class handles one message at a time, whoever hands them over.
THEOREM PythonTakesTurns == ServerSpec => []OneAtATime
<1>1. McpServerInv /\ LockTrue => OneAtATime
  BY DEF LockTrue, OneAtATime, Underway
<1> QED
  BY <1>1, McpServerConsistent, LockHolds, PTL

\* Nothing is registered while a message is on its way.
LEMMA Registering ==
  ASSUME LockTrue, MayRegister, NEW s \in Slots, Underway(s)
  PROVE  FALSE
<1>1. CASE python
  <2>1. lock = None /\ ~\E i \in DOMAIN queue : queue[i] = s
    BY <1>1 DEF MayRegister
  <2>2. \/ call[s].stage = "waiting" /\ \E i \in DOMAIN queue : queue[i] = s
        \/ lock = s \/ lock = "stdio"
    BY <1>1 DEF LockTrue
  <2> QED
    BY <2>1, <2>2
<1>2. CASE ~python
  <2>1. call[s] = NoCall
    BY <1>2 DEF MayRegister, LockTrue
  <2> QED
    BY <2>1 DEF Underway, NoCall
<1> QED
  BY <1>1, <1>2

\* Nothing is registered while a message is on its way to its answer
\* (server/mod.rs:184-189, chuk-mcp-python/src/server.rs:154-157).
THEOREM RegisteredBetween == ServerSpec => RegistersBetween
<1> DEFINE Between == registered' # registered => \A s \in Slots : ~Underway(s)
<1>1. ASSUME LockTrue, ServerNext
      PROVE  Between
  <2>1. ASSUME MayRegister, NEW s \in Slots, Underway(s)
        PROVE  FALSE
    BY <1>1, <2>1, Registering
  <2>2. registered' # registered => MayRegister
    BY <1>1 DEF ServerNext, Direct, Post, Line, CallBack, Give, Dispatch, Return, Log, RunStdio,
         Acquire, EndOfInput, RegisterTool, PyRegisterTool, RegisterResource, PyRegisterResource,
         RegisterPrompt, RegisterMethod, Register
  <2> QED
    BY <2>1, <2>2
<1>2. UNCHANGED srvVars => Between
  BY DEF srvVars
<1>3. LockTrue /\ [ServerNext]_srvVars => [Between]_srvVars
  BY <1>1, <1>2
<1> QED
  BY <1>3, LockHolds, PTL DEF ServerSpec, RegistersBetween

\* What reads for each call was looked up by the name it asked for, before any
\* resource was registered for that name.
LEMMA LookingUp ==
  ASSUME NEW s \in Slots, Dispatched(call[s].msg, call[s].connected) = "runs", Dispatch(s)
  PROVE  LET m == call[s].msg IN
         \E reads :
           /\ call' = [call EXCEPT ![s].stage = "running", ![s].reads = reads]
           /\ \/ reads \in {NoResult, [by |-> "resource"]}
              \/ m.name \in Uris \ registered.fixed /\ reads = ByTemplate[m.name]
<1>1. PICK m : m = call[s].msg
  OBVIOUS
<1>2. PICK reads : reads = IF m.method = "resources/read" /\ m.method \notin registered.overridden
                           THEN Reader(registered, m.name) ELSE NoResult
  OBVIOUS
<1>3. call' = [call EXCEPT ![s].stage = "running", ![s].reads = reads]
  BY <1>1, <1>2 DEF Dispatch
<1>4. \/ reads \in {NoResult, [by |-> "resource"]}
      \/ m.name \in Uris \ registered.fixed /\ reads = ByTemplate[m.name]
  BY <1>2 DEF Reader
<1> QED
  BY <1>1, <1>3, <1>4

\* A call nobody else looks anything up for keeps what reads for it, while nothing
\* is registered.
LEMMA ReaderStays ==
  ASSUME NEW s \in Slots, ReadsTrue(s), Underway(s)' => Underway(s), UNCHANGED registered,
         Underway(s)' => call'[s].msg = call[s].msg /\ call'[s].reads = call[s].reads
  PROVE  ReadsTrue(s)'
BY DEF ReadsTrue

\* A template's handler is given values that put back into the template name the
\* URI that was asked for, as long as no name is used twice, whatever the patterns
\* (server/resources/template.rs:60-65).
THEOREM TemplatesReadRight == ServerSpec => []ReadsWhatWasNamed
<1> DEFINE Looked == \A s \in Slots : ReadsTrue(s)
<1>1. ServerInit => Looked
  BY DEF ServerInit, ReadsTrue, NoCall, Underway
<1>2. ASSUME McpServerInv, LockTrue, Looked, ServerNext, NEW t \in Slots
      PROVE  ReadsTrue(t)'
  <2>0. /\ call = [s \in Slots |-> call[s]] /\ ReadsTrue(t)
        /\ Underway(t) => IsCall(call[t])
    BY <1>2, Entries DEF Entry, Underway, NoCall
  <2>1. ASSUME NEW s \in Slots, NEW m, NEW via, NEW within, Give(s, m, via, within)
        PROVE  ReadsTrue(t)'
    <3>1. CASE t # s
      <4>1. call'[t] = call[t] /\ UNCHANGED registered
        BY <2>0, <2>1, <3>1 DEF Give
      <4> QED
        BY <2>0, <4>1, ReaderStays DEF Underway
    <3>2. CASE t = s
      <4>1. call'[t] = Handed(m, via, within)
        BY <2>0, <2>1, <3>2 DEF Give
      <4>2. CASE Unreadable(m)
        <5>1. call'[t].stage = "done"
          BY <4>1, <4>2 DEF Handed
        <5> QED
          BY <5>1 DEF ReadsTrue, Underway
      <4>3. CASE ~Unreadable(m)
        <5>1. call'[t].reads = NoResult
          BY <4>1, <4>3 DEF Handed
        <5> QED
          BY <5>1 DEF ReadsTrue
      <4> QED
        BY <4>2, <4>3
    <3> QED
      BY <3>1, <3>2
  <2>2. ASSUME NEW s \in Slots, Dispatch(s)
        PROVE  ReadsTrue(t)'
    <3>1. PICK m, code : m = call[s].msg /\ code = Dispatched(m, call[s].connected)
      OBVIOUS
    <3>2. UNCHANGED registered
      BY <2>2 DEF Dispatch
    <3>3. CASE code = "runs"
      <4>1. PICK reads :
              /\ call' = [call EXCEPT ![s].stage = "running", ![s].reads = reads]
              /\ \/ reads \in {NoResult, [by |-> "resource"]}
                 \/ m.name \in Uris \ registered.fixed /\ reads = ByTemplate[m.name]
        BY <2>2, <3>1, <3>3, LookingUp
      <4>2. CASE t # s
        <5>1. call'[t] = call[t]
          BY <2>0, <4>1, <4>2
        <5> QED
          BY <2>0, <3>2, <5>1, ReaderStays DEF Underway
      <4>3. CASE t = s
        <5>1. Underway(t)
          BY <2>2, <4>3 DEF Dispatch, Underway
        <5>2. call'[t] = [call[t] EXCEPT !.stage = "running", !.reads = reads]
          BY <2>0, <4>1, <4>3
        <5>3. call'[t].reads = reads /\ call'[t].msg = m
          BY <2>0, <3>1, <4>3, <5>1, <5>2 DEF IsCall
        <5> QED
          BY <3>2, <4>1, <5>3 DEF ReadsTrue
      <4> QED
        BY <4>2, <4>3
    <3>4. CASE code # "runs"
      <4>1. \/ call'[t] = call[t]
            \/ call'[t].stage = "done"
            \/ /\ Underway(t)
               /\ call'[t] = [call[t] EXCEPT !.lowest = IF m.level < @ THEN m.level ELSE @]
        BY <2>2, <3>1, <3>4 DEF Dispatch, Ended
      <4>2. Underway(t)' => Underway(t) /\ call'[t].msg = call[t].msg /\ call'[t].reads = call[t].reads
        <5>1. CASE call'[t] = call[t]
          BY <5>1 DEF Underway
        <5>2. CASE call'[t].stage = "done"
          BY <5>2 DEF Underway
        <5>3. CASE /\ Underway(t)
                   /\ call'[t] = [call[t] EXCEPT !.lowest = IF m.level < @ THEN m.level ELSE @]
          BY <2>0, <5>3 DEF IsCall
        <5> QED
          BY <4>1, <5>1, <5>2, <5>3
      <4> QED
        BY <2>0, <3>2, <4>2, ReaderStays
    <3> QED
      BY <3>3, <3>4
  <2>3. ASSUME NEW s \in Slots, Return(s)
        PROVE  ReadsTrue(t)'
    <3>1. /\ UNCHANGED registered
          /\ call'[t] = call[t] \/ call'[t].stage = "done"
      BY <2>0, <2>3 DEF Return, Ended
    <3> QED
      BY <2>0, <3>1, ReaderStays DEF Underway
  <2>4. ASSUME NEW s \in Slots, NEW l, Log(s, l)
        PROVE  ReadsTrue(t)'
    <3>1. /\ UNCHANGED registered /\ Underway(s)
          /\ call'[t] = IF t = s THEN [call[t] EXCEPT !.heard = l] ELSE call[t]
      BY <2>0, <2>4 DEF Log, Underway
    <3>2. Underway(t)' => Underway(t) /\ call'[t].msg = call[t].msg /\ call'[t].reads = call[t].reads
      BY <2>0, <3>1 DEF IsCall, Underway
    <3> QED
      BY <2>0, <3>1, <3>2, ReaderStays
  <2>5. ASSUME NEW what, Register(what)
        PROVE  ReadsTrue(t)'
    <3>1. ~Underway(t)
      BY <1>2, <2>5, Registering DEF Register
    <3>2. call' = call
      BY <2>5 DEF Register
    <3> QED
      BY <3>1, <3>2 DEF ReadsTrue, Underway
  <2>6. CASE Acquire
    <3>1. PICK first : first = Head(queue)
      OBVIOUS
    <3>2. UNCHANGED registered
      BY <2>6 DEF Acquire
    <3>3. first = "stdio" \/ (first \in Slots /\ call[first].stage = "waiting")
      BY <1>2, <2>6, <3>1, Entries DEF Acquire, QueueTrue
    <3>4. \/ call'[t] = call[t]
          \/ Underway(t) /\ call'[t] = [call[t] EXCEPT !.stage = "taken"]
      BY <2>0, <2>6, <3>1, <3>3 DEF Acquire, Underway
    <3>5. Underway(t)' => Underway(t) /\ call'[t].msg = call[t].msg /\ call'[t].reads = call[t].reads
      BY <2>0, <3>4 DEF IsCall, Underway
    <3> QED
      BY <2>0, <3>2, <3>5, ReaderStays
  <2>7. CASE RunStdio \/ EndOfInput
    <3>1. UNCHANGED <<call, registered>>
      BY <2>7 DEF RunStdio, EndOfInput
    <3> QED
      BY <2>0, <3>1, ReaderStays DEF Underway
  <2>8. CASE \/ \E u \in DOMAIN LateTools : RegisterTool(u) \/ PyRegisterTool(u)
             \/ \E uri \in LateUris : RegisterResource(uri) \/ PyRegisterResource(uri)
             \/ \E p \in DOMAIN LatePrompts : RegisterPrompt(p)
             \/ \E method \in LateMethods : RegisterMethod(method)
    BY <2>5, <2>8 DEF RegisterTool, PyRegisterTool, RegisterResource, PyRegisterResource,
         RegisterPrompt, RegisterMethod
  <2>9. ASSUME NEW s \in Slots, NEW m \in Messages[s],
               \/ Direct(s, m) \/ Post(s, m) \/ Line(s, m)
               \/ \E u \in Slots : CallBack(u, s, m)
        PROVE  ReadsTrue(t)'
    <3>1. PICK via, within : Give(s, m, via, within)
      BY <2>9 DEF Direct, Post, Line, CallBack
    <3> QED
      BY <2>1, <3>1
  <2> HIDE DEF Looked
  <2> QED
    BY <1>2, <2>2, <2>3, <2>4, <2>6, <2>7, <2>8, <2>9 DEF ServerNext
<1>3. ASSUME Looked, UNCHANGED srvVars
      PROVE  Looked'
  BY <1>3, ReaderStays DEF srvVars, Underway
<1>4. ASSUME Looked
      PROVE  ReadsWhatWasNamed
  <2>1. SUFFICES ASSUME NEW s \in Slots, call[s].stage = "running",
                        call[s].reads # NoResult, call[s].reads.by = "template"
                 PROVE  WellRead(call[s].reads, call[s].msg.name) /\ call[s].msg.name \notin registered.fixed
    BY DEF ReadsWhatWasNamed
  <2>2. /\ call[s].msg.name \in Uris \ registered.fixed
        /\ call[s].reads = ByTemplate[call[s].msg.name]
    BY <1>4, <2>1 DEF ReadsTrue, Underway
  <2> QED
    BY <2>1, <2>2, Reading
<1> QED
  <2>1. McpServerInv /\ LockTrue /\ Looked /\ [ServerNext]_srvVars => Looked'
    BY <1>2, <1>3
  <2>2. Looked => ReadsWhatWasNamed
    BY <1>4
  <2> HIDE DEF Looked
  <2> QED
    BY <1>1, <2>1, <2>2, McpServerConsistent, LockHolds, PTL DEF ServerSpec

=============================================================================
